---- MODULE Spec2Model ----
(***************************************************************************)
(* Model of the upload ingestion pipeline of the schedule backend:         *)
(*   - FileProcessor   (src/src/services/fileProcessor.js)                 *)
(*   - OpenAIService   (src/src/services/openaiService.js)                 *)
(*   - upload route and processFileAsync (src/unnamed/part_000)            *)
(*                                                                         *)
(* JavaScript strings are sequences of one-character strings.  JavaScript  *)
(* values are records [t, s]: t is the result of typeof (with "null" and   *)
(* "array" told apart), s the characters of a string.  Error messages are  *)
(* sequences of fragments, one fragment per literal or interpolated part   *)
(* of the template that builds them.                                       *)
(***************************************************************************)
EXTENDS Integers, Sequences, FiniteSets, TLC

(***************************************************************************)
(* Bounds of the model.                                                    *)
(***************************************************************************)
MaxTextLen == 5
MaxMonth == 13
MaxDay == 32
MaxItems == 2
NumFiles == 2

(***************************************************************************)
(* JavaScript values.                                                      *)
(***************************************************************************)
Null == [t |-> "null", s |-> <<>>]
Undefined == [t |-> "undefined", s |-> <<>>]
Num == [t |-> "number", s |-> <<>>]
Str(s) == [t |-> "string", s |-> s]
Obj(a, d, l, src) ==
  [t |-> "object", s |-> <<>>, assignment |-> a, due_date |-> d,
   location |-> l, source |-> src]
Arr(elems) == [t |-> "array", s |-> <<>>, elems |-> elems]

IsString(v) == v.t = "string"

\* ToBoolean(v) = false for the values the model uses
Falsy(v) == v.t \in {"null", "undefined"} \/ (IsString(v) /\ v.s = <<>>)

(***************************************************************************)
(* String helpers: the regular expressions and String.prototype.trim.      *)
(***************************************************************************)
CR == "\r"
LF == "\n"
TAB == "\t"
SP == " "

\* the characters String.prototype.trim strips that occur in the model
WhiteSpace == {CR, LF, TAB, SP}

RECURSIVE TrimStart(_)
TrimStart(s) ==
  IF s # <<>> /\ Head(s) \in WhiteSpace THEN TrimStart(Tail(s)) ELSE s

RECURSIVE TrimEnd(_)
TrimEnd(s) ==
  IF s # <<>> /\ s[Len(s)] \in WhiteSpace
  THEN TrimEnd(SubSeq(s, 1, Len(s) - 1))
  ELSE s

trim(s) == TrimEnd(TrimStart(s))

\* s.replace(/\r\n/g, '\n')
RECURSIVE ReplaceCRLF(_)
ReplaceCRLF(s) ==
  IF s = <<>> THEN <<>>
  ELSE IF Len(s) >= 2 /\ s[1] = CR /\ s[2] = LF
       THEN <<LF>> \o ReplaceCRLF(SubSeq(s, 3, Len(s)))
       ELSE <<Head(s)>> \o ReplaceCRLF(Tail(s))

\* s.replace(/\r/g, '\n')
ReplaceCR(s) == [i \in 1..Len(s) |-> IF s[i] = CR THEN LF ELSE s[i]]

\* length of the run of character c at the start of s
RECURSIVE RunLen(_, _)
RunLen(s, c) ==
  IF s # <<>> /\ Head(s) = c THEN 1 + RunLen(Tail(s), c) ELSE 0

\* s.replace(/c{min,}/g, repl): every maximal run of at least min c's
RECURSIVE ReplaceRuns(_, _, _, _)
ReplaceRuns(s, c, min, repl) ==
  IF s = <<>> THEN <<>>
  ELSE LET n == RunLen(s, c) IN
       IF n >= min
       THEN repl \o ReplaceRuns(SubSeq(s, n + 1, Len(s)), c, min, repl)
       ELSE IF n > 0
            THEN SubSeq(s, 1, n) \o ReplaceRuns(SubSeq(s, n + 1, Len(s)), c, min, repl)
            ELSE <<Head(s)>> \o ReplaceRuns(Tail(s), c, min, repl)

(***************************************************************************)
(* FileProcessor.cleanText                                                 *)
(***************************************************************************)
\* cleanText with the space collapse ahead of the tab replacement
cleanTextSpacesFirst(text) ==
  IF Falsy(text) THEN <<>>
  ELSE trim(
         ReplaceRuns(
           ReplaceRuns(
             ReplaceRuns(ReplaceCR(ReplaceCRLF(text.s)), LF, 3, <<LF, LF>>),
             SP, 2, <<SP>>),
           TAB, 1, <<SP>>))

\* cleanText without the test of its argument, on String(text)
cleanTextOfStringified(text) ==
  LET str == IF IsString(text) THEN text.s
             ELSE IF text.t = "null" THEN <<"n", "u", "l", "l">>
             ELSE <<"u", "n", "d", "e", "f", "i", "n", "e", "d">>
  IN trim(
       ReplaceRuns(
         ReplaceRuns(
           ReplaceRuns(ReplaceCR(ReplaceCRLF(str)), LF, 3, <<LF, LF>>),
           TAB, 1, <<SP>>),
         SP, 2, <<SP>>))

\* cleanText without the replacement of the carriage returns left alone
cleanTextKeepsCR(text) ==
  IF Falsy(text) THEN <<>>
  ELSE trim(
         ReplaceRuns(
           ReplaceRuns(
             ReplaceRuns(ReplaceCRLF(text.s), LF, 3, <<LF, LF>>),
             TAB, 1, <<SP>>),
           SP, 2, <<SP>>))

\* cleanText(text): '' if (!text), else the chain of replace calls and trim
cleanText(text) ==
  IF Falsy(text) THEN <<>>
  ELSE trim(
         ReplaceRuns(
           ReplaceRuns(
             ReplaceRuns(ReplaceCR(ReplaceCRLF(text.s)), LF, 3, <<LF, LF>>),
             TAB, 1, <<SP>>),
           SP, 2, <<SP>>))

(***************************************************************************)
(* FileProcessor: supportedTypes, isSupported, processFile dispatch        *)
(***************************************************************************)
supportedTypes ==
  [m \in {"application/vnd.openxmlformats-officedocument.spreadsheetml.sheet",
          "application/vnd.ms-excel",
          "application/vnd.openxmlformats-officedocument.wordprocessingml.document",
          "application/msword",
          "application/pdf",
          "text/plain",
          "text/markdown",
          "image/jpeg",
          "image/png",
          "image/gif"} |->
     CASE m \in {"application/vnd.openxmlformats-officedocument.spreadsheetml.sheet",
                 "application/vnd.ms-excel"} -> "excel"
       [] m \in {"application/vnd.openxmlformats-officedocument.wordprocessingml.document",
                 "application/msword"} -> "word"
       [] m = "application/pdf" -> "pdf"
       [] m \in {"text/plain", "text/markdown"} -> "text"
       [] OTHER -> "image"]

\* property names every object inherits from Object.prototype
ObjectPrototypeKeys ==
  {"constructor", "toString", "toLocaleString", "valueOf", "hasOwnProperty",
   "isPrototypeOf", "propertyIsEnumerable", "__proto__"}

\* this.supportedTypes[mimeType]: own property, inherited property, undefined
PropertyLookup(mimeType) ==
  IF mimeType \in DOMAIN supportedTypes THEN supportedTypes[mimeType]
  ELSE IF mimeType \in ObjectPrototypeKeys THEN "[inherited]"
  ELSE "undefined"

isSupported(mimeType) == mimeType \in DOMAIN supportedTypes

getSupportedTypes == DOMAIN supportedTypes

StrategyFamilies == {"excel", "word", "pdf", "text", "image"}

\* processFile up to the strategy call: the strategy the switch selects, or
\* the error thrown before any strategy is called
DispatchNoDefault(mimeType) ==
  LET processorType == PropertyLookup(mimeType) IN
  IF processorType = "undefined"
  THEN [strategy |-> "none",
        error |-> <<"Unsupported file type: ", mimeType>>]
  ELSE [strategy |-> IF processorType \in StrategyFamilies
                     THEN processorType ELSE "text",
        error |-> <<>>]

\* processFile falling back to the text strategy for an unmapped type
DispatchFallbackText(mimeType) ==
  LET processorType == PropertyLookup(mimeType) IN
  IF processorType \in StrategyFamilies
  THEN [strategy |-> processorType, error |-> <<>>]
  ELSE [strategy |-> "text", error |-> <<>>]

Dispatch(mimeType) ==
  LET processorType == PropertyLookup(mimeType) IN
  IF processorType = "undefined"
  THEN [strategy |-> "none",
        error |-> <<"Unsupported file type: ", mimeType>>]
  ELSE IF processorType \in StrategyFamilies
       THEN [strategy |-> processorType, error |-> <<>>]
       ELSE [strategy |-> "none",
             error |-> <<"No processor found for type: ", processorType>>]

(***************************************************************************)
(* OpenAIService: field validators                                         *)
(***************************************************************************)
\* outcome of a call: a returned value or a thrown Error with its message
Return(v) == [ok |-> TRUE, v |-> v, error |-> <<>>]
Throw(msg) == [ok |-> FALSE, v |-> Null, error |-> msg]

validateStringNoTrimTest(value, fieldName) ==
  IF ~IsString(value) \/ Len(value.s) = 0
  THEN Throw(<<fieldName, " must be a non-empty string">>)
  ELSE Return(Str(trim(value.s)))

\* validateString returning the value as it came
validateStringReturnsValue(value, fieldName) ==
  IF ~IsString(value) \/ Len(trim(value.s)) = 0
  THEN Throw(<<fieldName, " must be a non-empty string">>)
  ELSE Return(value)

validateString(value, fieldName) ==
  IF ~IsString(value) \/ Len(trim(value.s)) = 0
  THEN Throw(<<fieldName, " must be a non-empty string">>)
  ELSE Return(Str(trim(value.s)))

\* the optional string kept when nothing is left of it after trimming
validateOptionalStringKeepBlank(value) ==
  IF value.t \in {"null", "undefined"} THEN Null
  ELSE IF ~IsString(value) THEN Null
  ELSE Str(trim(value.s))

validateOptionalString(value) ==
  IF value.t \in {"null", "undefined"} THEN Null
  ELSE IF ~IsString(value) THEN Null
  ELSE LET trimmed == trim(value.s) IN
       IF Len(trimmed) > 0 THEN Str(trimmed) ELSE Null

(***************************************************************************)
(* Date arithmetic of the JavaScript engine (Node.js / V8): the Date       *)
(* constructor on a date-only ISO string and Date.prototype.toISOString.   *)
(***************************************************************************)
Digits == {"0", "1", "2", "3", "4", "5", "6", "7", "8", "9"}

DigitVal(c) == CHOOSE n \in 0..9 : ToString(n) = c

\* decimal value of a sequence of digits
RECURSIVE ParseInt(_)
ParseInt(s) ==
  IF s = <<>> THEN 0
  ELSE 10 * ParseInt(SubSeq(s, 1, Len(s) - 1)) + DigitVal(s[Len(s)])

\* n as w decimal digits, zero padded
RECURSIVE PadStart(_, _)
PadStart(n, w) ==
  IF w = 0 THEN <<>>
  ELSE PadStart(n \div 10, w - 1) \o <<ToString(n % 10)>>

\* MakeDay: day number of year y, month m (1..12), day d, counted from
\* 1970-01-01; d beyond the month's length runs on into the next month
DaysFromCivil(y, m, d) ==
  LET yy  == IF m <= 2 THEN y - 1 ELSE y
      era == yy \div 400
      yoe == yy - era * 400
      mp  == IF m > 2 THEN m - 3 ELSE m + 9
      doy == (153 * mp + 2) \div 5 + d - 1
      doe == yoe * 365 + yoe \div 4 - yoe \div 100 + doy
  IN era * 146097 + doe - 719468

\* YearFromTime, MonthFromTime, DateFromTime of a day number
CivilFromDays(z) ==
  LET zz  == z + 719468
      era == zz \div 146097
      doe == zz - era * 146097
      yoe == (doe - doe \div 1460 + doe \div 36524 - doe \div 146096) \div 365
      doy == doe - (365 * yoe + yoe \div 4 - yoe \div 100)
      mp  == (5 * doy + 2) \div 153
      d   == doy - (153 * mp + 2) \div 5 + 1
      m   == IF mp < 10 THEN mp + 3 ELSE mp - 9
      y   == yoe + era * 400 + (IF m <= 2 THEN 1 ELSE 0)
  IN [year |-> y, month |-> m, day |-> d]

\* /^\d{4}-\d{2}-\d{2}$/.test(s)
dateRegexTest(s) ==
  /\ Len(s) = 10
  /\ s[5] = "-" /\ s[8] = "-"
  /\ \A i \in {1, 2, 3, 4, 6, 7, 9, 10} : s[i] \in Digits

\* new Date(s).getTime() for s matching dateRegex: the day number, or "NaN"
\* (Invalid Date) when the month is not 1..12 or the day not 1..31
DateParse(s) ==
  LET y == ParseInt(SubSeq(s, 1, 4))
      m == ParseInt(SubSeq(s, 6, 7))
      d == ParseInt(SubSeq(s, 9, 10))
  IN IF m \in 1..12 /\ d \in 1..31
     THEN [nan |-> FALSE, day |-> DaysFromCivil(y, m, d)]
     ELSE [nan |-> TRUE, day |-> 0]

\* date.toISOString().split('T')[0]
ISODatePart(day) ==
  LET c == CivilFromDays(day) IN
  PadStart(c.year, 4) \o <<"-">> \o PadStart(c.month, 2) \o <<"-">>
    \o PadStart(c.day, 2)

validateDateNoRoundTrip(value) ==
  IF value.t \in {"null", "undefined"} THEN Null
  ELSE IF ~IsString(value) THEN Null
  ELSE IF ~dateRegexTest(value.s) THEN Null
  ELSE IF DateParse(value.s).nan THEN Null
  ELSE value

validateDate(value) ==
  IF value.t \in {"null", "undefined"} THEN Null
  ELSE IF ~IsString(value) THEN Null
  ELSE IF ~dateRegexTest(value.s) THEN Null
  ELSE LET date == DateParse(value.s) IN
       IF date.nan THEN Null
       ELSE IF ISODatePart(date.day) # value.s THEN Null
       ELSE value

(***************************************************************************)
(* The raw response text, as a sequence of tokens: "[", "]", ",", a word   *)
(* of prose, or the literal of one JSON value that is not an array.        *)
(***************************************************************************)
Tok(k) == [k |-> k, v |-> Null]
LB == Tok("[")
RB == Tok("]")
Comma == Tok(",")
Prose == Tok("prose")
Lit(v) == [k |-> "value", v |-> v]

ParseFail == [ok |-> FALSE, v |-> Null, next |-> 0]

\* JSON.parse, by recursive descent from token i
RECURSIVE ParseValue(_, _)
RECURSIVE ParseElements(_, _, _)
ParseValue(toks, i) ==
  IF i > Len(toks) THEN ParseFail
  ELSE IF toks[i].k = "value"
       THEN [ok |-> TRUE, v |-> toks[i].v, next |-> i + 1]
       ELSE IF toks[i].k = "["
            THEN IF i + 1 <= Len(toks) /\ toks[i + 1].k = "]"
                 THEN [ok |-> TRUE, v |-> Arr(<<>>), next |-> i + 2]
                 ELSE ParseElements(toks, i + 1, <<>>)
            ELSE ParseFail

ParseElements(toks, i, acc) ==
  LET r == ParseValue(toks, i) IN
  IF ~r.ok \/ r.next > Len(toks) THEN ParseFail
  ELSE IF toks[r.next].k = ","
       THEN ParseElements(toks, r.next + 1, Append(acc, r.v))
       ELSE IF toks[r.next].k = "]"
            THEN [ok |-> TRUE, v |-> Arr(Append(acc, r.v)), next |-> r.next + 1]
            ELSE ParseFail

JSONParse(toks) ==
  LET r == ParseValue(toks, 1) IN
  IF r.ok /\ r.next = Len(toks) + 1
  THEN Return(r.v)
  ELSE Throw(<<"Unexpected token in JSON">>)

\* content.match(/\[[\s\S]*\]/): from the first "[" to the last "]"
RegexMatchArray(content) ==
  LET opens  == {i \in 1..Len(content) : content[i].k = "["}
      first  == CHOOSE i \in opens : \A j \in opens : i <= j
      closes == {i \in 1..Len(content) : content[i].k = "]" /\ i > first}
      last   == CHOOSE i \in closes : \A j \in closes : j <= i
  IN IF opens = {} \/ closes = {}
     THEN [matched |-> FALSE, text |-> <<>>]
     ELSE [matched |-> TRUE, text |-> SubSeq(content, first, last)]

\* item.name of a parsed element: undefined unless the object has the field
Field(item, name) == IF item.t = "object" THEN item[name] ELSE Undefined

\* the callback of parsed.map, index counted from 0
ValidateItemSkipSource(item, index) ==
  IF item.t \notin {"object", "array"}
  THEN Throw(<<"Item ", ToString(index), " is not an object">>)
  ELSE LET a == validateString(Field(item, "assignment"), "assignment") IN
       IF ~a.ok THEN Throw(a.error)
       ELSE Return(Obj(a.v,
                       validateDate(Field(item, "due_date")),
                       validateOptionalString(Field(item, "location")),
                       Field(item, "source")))

ValidateItem(item, index) ==
  IF item.t \notin {"object", "array"}
  THEN Throw(<<"Item ", ToString(index), " is not an object">>)
  ELSE LET a   == validateString(Field(item, "assignment"), "assignment")
           src == validateString(Field(item, "source"), "source")
       IN IF ~a.ok THEN Throw(a.error)
          ELSE IF ~src.ok THEN Throw(src.error)
          ELSE Return(Obj(a.v,
                          validateDate(Field(item, "due_date")),
                          validateOptionalString(Field(item, "location")),
                          src.v))

\* parsed.map(...) leaving out the elements that are not valid
RECURSIVE MapValidateSkipInvalid(_, _, _)
MapValidateSkipInvalid(elems, i, acc) ==
  IF i > Len(elems) THEN Return(acc)
  ELSE LET r == ValidateItem(elems[i], i - 1) IN
       IF ~r.ok THEN MapValidateSkipInvalid(elems, i + 1, acc)
       ELSE MapValidateSkipInvalid(elems, i + 1, Append(acc, r.v))

\* parsed.map(...) building its result from the last element to the first
RECURSIVE MapValidateReversed(_, _, _)
MapValidateReversed(elems, i, acc) ==
  IF i > Len(elems) THEN Return(acc)
  ELSE LET r == ValidateItem(elems[i], i - 1) IN
       IF ~r.ok THEN Throw(r.error)
       ELSE MapValidateReversed(elems, i + 1, <<r.v>> \o acc)

\* parsed.map(...): the validated items, or the first error thrown
RECURSIVE MapValidate(_, _, _)
MapValidate(elems, i, acc) ==
  IF i > Len(elems) THEN Return(acc)
  ELSE LET r == ValidateItem(elems[i], i - 1) IN
       IF ~r.ok THEN Throw(r.error)
       ELSE MapValidate(elems, i + 1, Append(acc, r.v))

\* the validation with an array of no items refused
parseAndValidateResponseRejectEmpty(content) ==
  LET jsonMatch  == RegexMatchArray(content)
      jsonString == IF jsonMatch.matched THEN jsonMatch.text ELSE content
      parsed     == JSONParse(jsonString)
      inner      == IF ~parsed.ok THEN Throw(parsed.error)
                    ELSE IF parsed.v.t # "array"
                         THEN Throw(<<"Response is not an array">>)
                    ELSE IF parsed.v.elems = <<>>
                         THEN Throw(<<"Response has no items">>)
                         ELSE MapValidate(parsed.v.elems, 1, <<>>)
  IN IF inner.ok THEN inner
     ELSE Throw(<<"Invalid JSON response from OpenAI: ">> \o inner.error)

\* parseAndValidateResponse(content): the validated items, or the error thrown
parseAndValidateResponse(content) ==
  LET jsonMatch  == RegexMatchArray(content)
      jsonString == IF jsonMatch.matched THEN jsonMatch.text ELSE content
      parsed     == JSONParse(jsonString)
      inner      == IF ~parsed.ok THEN Throw(parsed.error)
                    ELSE IF parsed.v.t # "array"
                         THEN Throw(<<"Response is not an array">>)
                         ELSE MapValidate(parsed.v.elems, 1, <<>>)
  IN IF inner.ok THEN inner
     ELSE Throw(<<"Invalid JSON response from OpenAI: ">> \o inner.error)

(***************************************************************************)
(* OpenAIService constructor                                               *)
(***************************************************************************)
maxRetries == 3
retryDelay == 1000

(***************************************************************************)
(* Inputs of the pipeline                                                  *)
(***************************************************************************)
FileIds == 1..NumFiles

DateString(y, m, d) ==
  PadStart(y, 4) \o <<"-">> \o PadStart(m, 2) \o <<"-">> \o PadStart(d, 2)

\* declared content types a run is started with
MimeTypes ==
  {"text/plain", "application/pdf", "image/png",
   "application/vnd.ms-excel", "application/msword",
   "application/zip", "constructor"}

\* what a strategy reads from the file: the raw text, or a failure
RawTexts == {<<>>, <<SP, LF>>, <<"a", TAB, TAB, "b", CR, LF>>}

ItemA == Obj(Str(<<SP, "a", SP>>), Str(DateString(2024, 3, 5)),
             Str(<<"r">>), Str(<<"f">>))
ItemBadDate == Obj(Str(<<"x">>), Str(DateString(2024, 2, 30)), Null, Str(<<"f">>))
ItemNoDescription == Obj(Str(<<SP>>), Null, Null, Str(<<"f">>))

\* what one call of the remote capability yields: a transport error, or a
\* completion with its content (Null: no content)
\* (content: Null for none, or the string of its tokens)
TransportError == [resolved |-> FALSE, content |-> Null]
Completion(toks) == [resolved |-> TRUE, content |-> Str(toks)]
EmptyCompletion == [resolved |-> TRUE, content |-> Null]

RemoteOutcomes ==
  {TransportError, EmptyCompletion,
   Completion(<<>>),
   Completion(<<Prose, Prose>>),
   Completion(<<Lit(ItemA)>>),
   Completion(<<LB, RB>>),
   Completion(<<Prose, LB, Lit(ItemA), RB>>),
   Completion(<<LB, Lit(ItemBadDate), RB>>),
   Completion(<<LB, Lit(ItemA), Comma, Lit(ItemBadDate), RB>>),
   Completion(<<LB, Lit(ItemA), Comma, Lit(ItemNoDescription), RB>>)}

StorageError == <<"storage error">>

\* req.user.id of the authenticated users
UserIds == {1, 2}

(***************************************************************************)
(* State                                                                   *)
(***************************************************************************)
VARIABLES
  status,           \* uploaded_files.processing_status by file id ("none": no row)
  processingError,  \* uploaded_files.processing_error (<<>>: NULL)
  extractedText,    \* uploaded_files.extracted_text (Null: NULL)
  mimeType,         \* uploaded_files.mime_type, the mimeType argument of the run
  userId,           \* uploaded_files.user_id, the userId argument of the run (0: no row)
  assignments,      \* rows of the assignments table, in insertion order
  pc,               \* position of the run of each file
  text,             \* processFileAsync: const extractedText
  attempt,          \* makeRequestWithRetry: attempt
  scheduleData,     \* processFileAsync: const scheduleData
  idx,              \* processFileAsync: position of the for loop over scheduleData
  caught,           \* processFileAsync: error of the catch clause
  strategyCalls,    \* strategies invoked by the run, in order
  remoteCalls,      \* number of chat.completions.create calls of the run
  attemptErrors,    \* error.message caught by each failed attempt, in order
  waited,           \* delays of the setTimeout calls of the run, in order
  call,             \* pure functions: the call
  ret,              \* pure functions: its outcome
  reqFiles,         \* upload handler: file.mimetype of each file of req.files
  hpc,              \* upload handler: position of the handler of the request
  uploadedFiles,    \* upload handler: const uploadedFiles
  uploadErrors,     \* upload handler: const errors
  response,         \* upload handler: the response sent
  reqUser           \* upload handler: req.user.id (0: no request)

dbVars == <<status, processingError, extractedText, mimeType, userId, assignments>>
runVars == <<pc, text, attempt, scheduleData, idx, caught>>
obsVars == <<strategyCalls, remoteCalls, attemptErrors, waited>>
pureVars == <<call, ret>>
reqVars == <<reqFiles, hpc, uploadedFiles, uploadErrors, response, reqUser>>
vars == <<dbVars, runVars, obsVars, pureVars, reqVars>>

NoCall == [fn |-> "none", state |-> "none"]
NoRet == [ok |-> FALSE, v |-> Null, error |-> <<"not called">>]

\* no response has been sent
NoResponse == [code |-> 0, files |-> <<>>, errors |-> <<>>]

\* no upload request is being handled
NoRequest ==
  /\ reqFiles = <<>>
  /\ hpc = "none"
  /\ uploadedFiles = <<>>
  /\ uploadErrors = <<>>
  /\ response = NoResponse
  /\ reqUser = 0

(***************************************************************************)
(* OpenAIService.makeRequestWithRetry                                      *)
(***************************************************************************)
\* the try block of one attempt, given what the remote call yields
AttemptOutcome(o) ==
  IF ~o.resolved THEN Throw(<<"Connection error.">>)
  ELSE IF Falsy(o.content) THEN Throw(<<"No content received from OpenAI">>)
  ELSE parseAndValidateResponse(o.content.s)

ShouldRetryOffByOne(n) == n <= maxRetries

\* attempt < this.maxRetries
ShouldRetry(n) == n < maxRetries

BackoffDelayConstant(n) == retryDelay

\* const delay = this.retryDelay * attempt
BackoffDelay(n) == retryDelay * n

ExhaustedErrorFirstCause(errors) ==
  <<"OpenAI request failed after ", ToString(maxRetries), " attempts: ">>
    \o errors[1]

\* new Error(`OpenAI request failed after ${this.maxRetries} attempts: ...`),
\* errors: the messages caught so far, the last one being error.message
ExhaustedError(errors) ==
  <<"OpenAI request failed after ", ToString(maxRetries), " attempts: ">>
    \o errors[Len(errors)]

(***************************************************************************)
(* FileProcessor.processFile: the strategies                               *)
(***************************************************************************)
\* the message a failing strategy throws
StrategyError(family) ==
  CASE family = "excel" -> <<"Excel processing failed: ", "cause">>
    [] family = "word"  -> <<"Word processing failed: ", "cause">>
    [] family = "pdf"   -> <<"PDF processing failed: ", "cause">>
    [] family = "text"  -> <<"Text processing failed: ", "cause">>
    [] family = "image" -> <<"Image OCR processing failed: ", "cause">>

(***************************************************************************)
(* processFileAsync, one action per await                                  *)
(***************************************************************************)
\* a catch clause that does not keep the message of the error
ThrowToCatchDropsMessage(f, msg) ==
  /\ caught' = [caught EXCEPT ![f] = <<>>]
  /\ pc' = [pc EXCEPT ![f] = "catch"]

\* a throw inside the try block: control goes to the catch clause
ThrowToCatch(f, msg) ==
  /\ caught' = [caught EXCEPT ![f] = msg]
  /\ pc' = [pc EXCEPT ![f] = "catch"]

\* processFile trying the text strategy after the selected strategy failed
ProcessFileFallback(f) ==
  /\ pc[f] = "processFile"
  /\ LET d == Dispatch(mimeType[f]) IN
     IF d.strategy = "none"
     THEN /\ ThrowToCatch(f, d.error)
          /\ UNCHANGED <<text, strategyCalls>>
     ELSE \/ /\ strategyCalls' = [strategyCalls EXCEPT ![f] = @ \o <<d.strategy, "text">>]
             /\ ThrowToCatch(f, StrategyError("text"))
             /\ UNCHANGED text
          \/ \E raw \in RawTexts :
               /\ strategyCalls' = [strategyCalls EXCEPT ![f] = Append(@, d.strategy)]
               /\ text' = [text EXCEPT ![f] = Str(cleanText(Str(raw)))]
               /\ pc' = [pc EXCEPT ![f] = "updateText"]
               /\ UNCHANGED caught
  /\ UNCHANGED <<dbVars, attempt, scheduleData, idx, remoteCalls,
                 attemptErrors, waited, pureVars, reqVars>>

\* await fileProcessor.processFile(filePath, mimeType)
ProcessFile(f) ==
  /\ pc[f] = "processFile"
  /\ LET d == Dispatch(mimeType[f]) IN
     IF d.strategy = "none"
     THEN /\ ThrowToCatch(f, d.error)
          /\ UNCHANGED <<text, strategyCalls>>
     ELSE /\ strategyCalls' = [strategyCalls EXCEPT ![f] = Append(@, d.strategy)]
          /\ \/ /\ ThrowToCatch(f, StrategyError(d.strategy))
                /\ UNCHANGED text
             \/ \E raw \in RawTexts :
                  /\ text' = [text EXCEPT ![f] = Str(cleanText(Str(raw)))]
                  /\ pc' = [pc EXCEPT ![f] = "updateText"]
                  /\ UNCHANGED caught
  /\ UNCHANGED <<dbVars, attempt, scheduleData, idx, remoteCalls,
                 attemptErrors, waited, pureVars, reqVars>>

\* the update of the extracted text writing the final status
UpdateExtractedTextAsCompleted(f) ==
  /\ pc[f] = "updateText"
  /\ \/ /\ extractedText' = [extractedText EXCEPT ![f] = text[f]]
        /\ status' = [status EXCEPT ![f] = "completed"]
        /\ pc' = [pc EXCEPT ![f] = "request"]
        /\ UNCHANGED caught
     \/ /\ ThrowToCatch(f, StorageError)
        /\ UNCHANGED <<extractedText, status>>
  /\ UNCHANGED <<processingError, mimeType, userId, assignments, text, attempt,
                 scheduleData, idx, obsVars, pureVars, reqVars>>

\* the update of the extracted text not awaited: the run goes on before the
\* row is written
UpdateExtractedTextUnawaited(f) ==
  /\ pc[f] = "updateText"
  /\ pc' = [pc EXCEPT ![f] = "request"]
  /\ UNCHANGED <<dbVars, text, attempt, scheduleData, idx, caught, obsVars,
                 pureVars, reqVars>>

\* the update of the extracted text refusing an empty text
UpdateExtractedTextRejectEmpty(f) ==
  /\ pc[f] = "updateText"
  /\ \/ /\ text[f] # Str(<<>>)
        /\ extractedText' = [extractedText EXCEPT ![f] = text[f]]
        /\ status' = [status EXCEPT ![f] = "text_extracted"]
        /\ pc' = [pc EXCEPT ![f] = "request"]
        /\ UNCHANGED caught
     \/ /\ text[f] = Str(<<>>)
        /\ ThrowToCatch(f, <<"No text could be extracted">>)
        /\ UNCHANGED <<extractedText, status>>
     \/ /\ ThrowToCatch(f, StorageError)
        /\ UNCHANGED <<extractedText, status>>
  /\ UNCHANGED <<processingError, mimeType, userId, assignments, text, attempt,
                 scheduleData, idx, obsVars, pureVars, reqVars>>

\* await query('UPDATE uploaded_files SET extracted_text = $1,
\*              processing_status = $2 ...', [extractedText, 'text_extracted', fileId])
UpdateExtractedText(f) ==
  /\ pc[f] = "updateText"
  /\ \/ /\ extractedText' = [extractedText EXCEPT ![f] = text[f]]
        /\ status' = [status EXCEPT ![f] = "text_extracted"]
        /\ pc' = [pc EXCEPT ![f] = "request"]
        /\ UNCHANGED caught
     \/ /\ ThrowToCatch(f, StorageError)
        /\ UNCHANGED <<extractedText, status>>
  /\ UNCHANGED <<processingError, mimeType, userId, assignments, text, attempt,
                 scheduleData, idx, obsVars, pureVars, reqVars>>

\* an attempt that, when the validation of the response fails, goes on with
\* the elements of the response that are valid
RemoteCallSalvagesItems(f) ==
  /\ pc[f] = "request"
  /\ remoteCalls' = [remoteCalls EXCEPT ![f] = @ + 1]
  /\ \E o \in RemoteOutcomes :
       LET r == AttemptOutcome(o)
           parsed == IF o.resolved /\ IsString(o.content)
                     THEN JSONParse(RegexMatchArray(o.content.s).text)
                     ELSE Throw(<<>>)
           salvaged == IF parsed.ok /\ parsed.v.t = "array"
                       THEN MapValidateSkipInvalid(parsed.v.elems, 1, <<>>).v
                       ELSE <<>>
       IN
       IF r.ok
       THEN /\ scheduleData' = [scheduleData EXCEPT ![f] = r.v]
            /\ pc' = [pc EXCEPT ![f] = IF r.v = <<>> THEN "markCompleted"
                                                     ELSE "insert"]
            /\ UNCHANGED <<caught, attemptErrors>>
       ELSE /\ attemptErrors' = [attemptErrors EXCEPT ![f] = Append(@, r.error)]
            /\ IF salvaged # <<>>
               THEN /\ scheduleData' = [scheduleData EXCEPT ![f] = salvaged]
                    /\ pc' = [pc EXCEPT ![f] = "insert"]
                    /\ UNCHANGED caught
               ELSE /\ IF ShouldRetry(attempt[f])
                       THEN /\ pc' = [pc EXCEPT ![f] = "backoff"]
                            /\ UNCHANGED caught
                       ELSE ThrowToCatch(f, ExhaustedError(Append(attemptErrors[f], r.error)))
                    /\ UNCHANGED scheduleData
  /\ UNCHANGED <<dbVars, text, attempt, idx, strategyCalls, waited, pureVars, reqVars>>

\* an attempt that waits out a delay before returning its validated items
RemoteCallWaitsAfterSuccess(f) ==
  /\ pc[f] = "request"
  /\ remoteCalls' = [remoteCalls EXCEPT ![f] = @ + 1]
  /\ \E o \in RemoteOutcomes :
       LET r == AttemptOutcome(o) IN
       IF r.ok
       THEN /\ scheduleData' = [scheduleData EXCEPT ![f] = r.v]
            /\ waited' = [waited EXCEPT ![f] = Append(@, BackoffDelay(attempt[f]))]
            /\ pc' = [pc EXCEPT ![f] = IF r.v = <<>> THEN "markCompleted"
                                                     ELSE "insert"]
            /\ UNCHANGED <<caught, attemptErrors>>
       ELSE /\ attemptErrors' = [attemptErrors EXCEPT ![f] = Append(@, r.error)]
            /\ IF ShouldRetry(attempt[f])
               THEN /\ pc' = [pc EXCEPT ![f] = "backoff"]
                    /\ UNCHANGED caught
               ELSE ThrowToCatch(f, ExhaustedError(Append(attemptErrors[f], r.error)))
            /\ UNCHANGED <<scheduleData, waited>>
  /\ UNCHANGED <<dbVars, text, attempt, idx, strategyCalls, pureVars, reqVars>>

\* one attempt of makeRequestWithRetry: the remote call, the validation of
\* its response, and the catch clause up to the setTimeout or the final throw
RemoteCall(f) ==
  /\ pc[f] = "request"
  /\ remoteCalls' = [remoteCalls EXCEPT ![f] = @ + 1]
  /\ \E o \in RemoteOutcomes :
       LET r == AttemptOutcome(o) IN
       IF r.ok
       THEN /\ scheduleData' = [scheduleData EXCEPT ![f] = r.v]
            /\ pc' = [pc EXCEPT ![f] = IF r.v = <<>> THEN "markCompleted"
                                                     ELSE "insert"]
            /\ UNCHANGED <<caught, attemptErrors>>
       ELSE /\ attemptErrors' = [attemptErrors EXCEPT ![f] = Append(@, r.error)]
            /\ IF ShouldRetry(attempt[f])
               THEN /\ pc' = [pc EXCEPT ![f] = "backoff"]
                    /\ UNCHANGED caught
               ELSE ThrowToCatch(f, ExhaustedError(Append(attemptErrors[f], r.error)))
            /\ UNCHANGED scheduleData
  /\ UNCHANGED <<dbVars, text, attempt, idx, strategyCalls, waited, pureVars, reqVars>>

\* a promise whose timer never resolves it: new Promise(() => setTimeout(delay))
BackoffNeverFires(f) ==
  /\ pc[f] = "backoff"
  /\ FALSE
  /\ UNCHANGED vars

\* await new Promise(resolve => setTimeout(resolve, delay)), then the
\* recursive call makeRequestWithRetry(prompt, attempt + 1)
Backoff(f) ==
  /\ pc[f] = "backoff"
  /\ waited' = [waited EXCEPT ![f] = Append(@, BackoffDelay(attempt[f]))]
  /\ attempt' = [attempt EXCEPT ![f] = @ + 1]
  /\ pc' = [pc EXCEPT ![f] = "request"]
  /\ UNCHANGED <<dbVars, text, scheduleData, idx, caught, strategyCalls,
                 remoteCalls, attemptErrors, pureVars, reqVars>>

\* the row of an INSERT whose first two values are exchanged
AssignmentRowIdsExchanged(f, item) ==
  [user_id |-> f, file_id |-> userId[f], assignment |-> item.assignment,
   due_date |-> item.due_date, location |-> item.location,
   source |-> item.source]

\* the row the INSERT INTO assignments of the loop body writes
AssignmentRow(f, item) ==
  [user_id |-> userId[f], file_id |-> f, assignment |-> item.assignment,
   due_date |-> item.due_date, location |-> item.location,
   source |-> item.source]

\* the loop body with its own try/catch: a failed INSERT is skipped
InsertAssignmentContinue(f) ==
  /\ pc[f] = "insert"
  /\ \/ assignments' = Append(assignments, AssignmentRow(f, scheduleData[f][idx[f]]))
     \/ UNCHANGED assignments
  /\ idx' = [idx EXCEPT ![f] = @ + 1]
  /\ pc' = [pc EXCEPT ![f] = IF idx[f] = Len(scheduleData[f])
                             THEN "markCompleted" ELSE "insert"]
  /\ UNCHANGED <<status, processingError, extractedText, mimeType, userId, text,
                 attempt, scheduleData, caught, obsVars, pureVars, reqVars>>

\* the loop body catching the error of a failed INSERT and going on
InsertAssignmentLogsFailure(f) ==
  /\ pc[f] = "insert"
  /\ \/ /\ assignments' = Append(assignments, AssignmentRow(f, scheduleData[f][idx[f]]))
        /\ UNCHANGED caught
     \/ /\ caught' = [caught EXCEPT ![f] = StorageError]
        /\ UNCHANGED assignments
  /\ idx' = [idx EXCEPT ![f] = @ + 1]
  /\ pc' = [pc EXCEPT ![f] = IF idx[f] = Len(scheduleData[f])
                             THEN "markCompleted" ELSE "insert"]
  /\ UNCHANGED <<status, processingError, extractedText, mimeType, userId, text,
                 attempt, scheduleData, obsVars, pureVars, reqVars>>

\* one iteration of for (const item of scheduleData) { await query(INSERT ...) }
InsertAssignment(f) ==
  /\ pc[f] = "insert"
  /\ \/ /\ assignments' = Append(assignments, AssignmentRow(f, scheduleData[f][idx[f]]))
        /\ idx' = [idx EXCEPT ![f] = @ + 1]
        /\ pc' = [pc EXCEPT ![f] = IF idx[f] = Len(scheduleData[f])
                                   THEN "markCompleted" ELSE "insert"]
        /\ UNCHANGED caught
     \/ /\ ThrowToCatch(f, StorageError)
        /\ UNCHANGED <<assignments, idx>>
  /\ UNCHANGED <<status, processingError, extractedText, mimeType, userId, text,
                 attempt, scheduleData, obsVars, pureVars, reqVars>>

\* the completed update followed by a throw inside the try block
MarkCompletedThenThrow(f) ==
  /\ pc[f] = "markCompleted"
  /\ status' = [status EXCEPT ![f] = "completed"]
  /\ ThrowToCatch(f, <<"thrown after the update">>)
  /\ UNCHANGED <<processingError, extractedText, mimeType, userId, assignments, text,
                 attempt, scheduleData, idx, obsVars, pureVars, reqVars>>

\* await query('UPDATE uploaded_files SET processing_status = $1 ...', ['completed', fileId])
MarkCompleted(f) ==
  /\ pc[f] = "markCompleted"
  /\ \/ /\ status' = [status EXCEPT ![f] = "completed"]
        /\ pc' = [pc EXCEPT ![f] = "done"]
        /\ UNCHANGED caught
     \/ /\ ThrowToCatch(f, StorageError)
        /\ UNCHANGED status
  /\ UNCHANGED <<processingError, extractedText, mimeType, userId, assignments, text,
                 attempt, scheduleData, idx, obsVars, pureVars, reqVars>>

\* the catch clause with an UPDATE that has no WHERE id = $3: every file
\* still in progress is marked failed
MarkFailedEveryFile(f) ==
  /\ pc[f] = "catch"
  /\ \/ /\ status' = [g \in FileIds |->
                        IF status[g] \in {"processing", "text_extracted"}
                        THEN "failed" ELSE status[g]]
        /\ processingError' = [g \in FileIds |->
                                 IF status[g] \in {"processing", "text_extracted"}
                                 THEN caught[f] ELSE processingError[g]]
        /\ pc' = [pc EXCEPT ![f] = "done"]
     \/ /\ pc' = [pc EXCEPT ![f] = "rejected"]
        /\ UNCHANGED <<status, processingError>>
  /\ UNCHANGED <<extractedText, mimeType, userId, assignments, text, attempt,
                 scheduleData, idx, caught, obsVars, pureVars, reqVars>>

\* the catch clause starting the run again after it has recorded the failure
MarkFailedRestarts(f) ==
  /\ pc[f] = "catch"
  /\ \/ /\ status' = [status EXCEPT ![f] = "failed"]
        /\ processingError' = [processingError EXCEPT ![f] = caught[f]]
        /\ pc' = [pc EXCEPT ![f] = "processFile"]
     \/ /\ pc' = [pc EXCEPT ![f] = "rejected"]
        /\ UNCHANGED <<status, processingError>>
  /\ UNCHANGED <<extractedText, mimeType, userId, assignments, text, attempt,
                 scheduleData, idx, caught, obsVars, pureVars, reqVars>>

\* the catch clause writing the message and leaving the status as it is
MarkFailedErrorOnly(f) ==
  /\ pc[f] = "catch"
  /\ \/ /\ processingError' = [processingError EXCEPT ![f] = caught[f]]
        /\ pc' = [pc EXCEPT ![f] = "done"]
     \/ /\ pc' = [pc EXCEPT ![f] = "rejected"]
        /\ UNCHANGED processingError
  /\ UNCHANGED <<status, extractedText, mimeType, userId, assignments, text, attempt,
                 scheduleData, idx, caught, obsVars, pureVars, reqVars>>

\* the catch clause writing extracted_text = NULL along with the failure
MarkFailedClearsText(f) ==
  /\ pc[f] = "catch"
  /\ \/ /\ status' = [status EXCEPT ![f] = "failed"]
        /\ processingError' = [processingError EXCEPT ![f] = caught[f]]
        /\ extractedText' = [extractedText EXCEPT ![f] = Null]
        /\ pc' = [pc EXCEPT ![f] = "done"]
     \/ /\ pc' = [pc EXCEPT ![f] = "rejected"]
        /\ UNCHANGED <<status, processingError, extractedText>>
  /\ UNCHANGED <<mimeType, userId, assignments, text, attempt,
                 scheduleData, idx, caught, obsVars, pureVars, reqVars>>

\* catch (error) { await query('UPDATE uploaded_files SET processing_status = $1,
\*   processing_error = $2 ...', ['failed', error.message, fileId]) }
\* a failure of this query rejects the promise of processFileAsync
MarkFailed(f) ==
  /\ pc[f] = "catch"
  /\ \/ /\ status' = [status EXCEPT ![f] = "failed"]
        /\ processingError' = [processingError EXCEPT ![f] = caught[f]]
        /\ pc' = [pc EXCEPT ![f] = "done"]
     \/ /\ pc' = [pc EXCEPT ![f] = "rejected"]
        /\ UNCHANGED <<status, processingError>>
  /\ UNCHANGED <<extractedText, mimeType, userId, assignments, text, attempt,
                 scheduleData, idx, caught, obsVars, pureVars, reqVars>>

\* a run whose wait is a busy loop: while a run waits, no other run steps
RunStepBlockedByWait(f) ==
  /\ \A g \in FileIds \ {f} : pc[g] # "backoff"
  /\ \/ ProcessFile(f)
     \/ UpdateExtractedText(f)
     \/ RemoteCall(f)
     \/ Backoff(f)
     \/ InsertAssignment(f)
     \/ MarkCompleted(f)
     \/ MarkFailed(f)

RunStep(f) ==
  \/ ProcessFile(f)
  \/ UpdateExtractedText(f)
  \/ RemoteCall(f)
  \/ Backoff(f)
  \/ InsertAssignment(f)
  \/ MarkCompleted(f)
  \/ MarkFailed(f)

(***************************************************************************)
(* Runs of processFileAsync on any arguments                               *)
(***************************************************************************)
\* the state right after the call processFileAsync(fileId, ..., mimeType, ...)
\* for file 1, whose row the handler has inserted with status 'processing'
Init ==
  /\ status = [f \in FileIds |-> IF f = 1 THEN "processing" ELSE "none"]
  /\ processingError = [f \in FileIds |-> <<>>]
  /\ extractedText = [f \in FileIds |-> Null]
  /\ mimeType \in {[f \in FileIds |-> IF f = 1 THEN m ELSE ""] : m \in MimeTypes}
  /\ userId \in {[f \in FileIds |-> IF f = 1 THEN u ELSE 0] : u \in UserIds}
  /\ assignments = <<>>
  /\ pc = [f \in FileIds |-> IF f = 1 THEN "processFile" ELSE "idle"]
  /\ text = [f \in FileIds |-> Null]
  /\ attempt = [f \in FileIds |-> 1]
  /\ scheduleData = [f \in FileIds |-> <<>>]
  /\ idx = [f \in FileIds |-> 1]
  /\ caught = [f \in FileIds |-> <<>>]
  /\ strategyCalls = [f \in FileIds |-> <<>>]
  /\ remoteCalls = [f \in FileIds |-> 0]
  /\ attemptErrors = [f \in FileIds |-> <<>>]
  /\ waited = [f \in FileIds |-> <<>>]
  /\ call = NoCall
  /\ ret = NoRet
  /\ NoRequest

Next == \E f \in FileIds : RunStep(f)

Spec == Init /\ [][Next]_vars

\* the event loop resumes a run whose awaited call has settled: under the
\* assumption that every call returns and every timer fires, a run that can
\* take a step eventually takes one
SpecFair == Init /\ [][Next]_vars /\ \A f \in FileIds : WF_vars(RunStep(f))

(***************************************************************************)
(* The functions of FileProcessor and OpenAIService, called one at a time  *)
(***************************************************************************)
SeqsUpTo(S, n) == UNION {[1..k -> S] : k \in 0..n}

\* texts cleanText is applied to
TextChars == {CR, LF, TAB, SP, "a"}
Texts == SeqsUpTo(TextChars, MaxTextLen)

\* content types processFile is applied to
MimeInputs ==
  DOMAIN supportedTypes \cup ObjectPrototypeKeys \cup
  {"application/zip", "video/mp4", "audio/mp3", "TEXT/PLAIN", "Text/Plain",
   "text/plain ", "text/plain; charset=utf-8", "text/html", "text", "excel",
   "pdf", "image/jpg", "image/webp", "application/json", "undefined", ""}

\* values validateDate is applied to
DateYears == {0, 1900, 2000, 2023, 2024, 9999}
MalformedDates ==
  {<<>>, <<"a">>,
   <<"2", "0", "2", "4", "-", "2", "-", "0", "5">>,
   <<"2", "4", "-", "0", "2", "-", "0", "5">>,
   <<"2", "0", "2", "4", "/", "0", "2", "/", "0", "5">>,
   <<"2", "0", "2", "4", "0", "2", "0", "5">>,
   <<"0", "2", "-", "0", "5", "-", "2", "0", "2", "4">>,
   <<"2", "0", "2", "4", "-", "0", "2", "-", "a", "5">>,
   <<SP>> \o DateString(2024, 2, 5),
   DateString(2024, 2, 5) \o <<LF>>,
   DateString(2024, 2, 5) \o <<"T", "0", "0", ":", "0", "0">>}
DateInputs ==
  {Null, Undefined, Num}
    \cup {Str(DateString(y, m, d)) : y \in DateYears, m \in 0..MaxMonth, d \in 0..MaxDay}
    \cup {Str(s) : s \in MalformedDates}

\* elements of the arrays parseAndValidateResponse is applied to
StringFieldInputs ==
  {Undefined, Null, Num, Str(<<>>), Str(<<SP, TAB>>), Str(<<"a">>),
   Str(<<SP, "a", SP, "b", LF>>)}
ElementInputs ==
  {Obj(a, Null, Null, src) : a \in StringFieldInputs, src \in StringFieldInputs}
    \cup {Obj(Str(<<"a">>), d, l, Str(<<"f">>)) :
            d \in {Str(DateString(2024, 2, 29)), Str(DateString(2024, 2, 30)),
                   Str(DateString(2023, 2, 29)), Num},
            l \in {Undefined, Num, Str(<<SP>>), Str(<<SP, "r">>)}}
    \cup {Null, Num, Str(<<"a">>), Arr(<<>>)}

\* the JSON text of an element, and of an array of elements
ElementText(e) == IF e.t = "array" THEN <<LB, RB>> ELSE <<Lit(e)>>
RECURSIVE ElementsText(_)
ElementsText(elems) ==
  IF elems = <<>> THEN <<>>
  ELSE IF Len(elems) = 1 THEN ElementText(elems[1])
  ELSE ElementText(elems[1]) \o <<Comma>> \o ElementsText(Tail(elems))
ArrayText(elems) == <<LB>> \o ElementsText(elems) \o <<RB>>

\* raw responses parseAndValidateResponse is applied to: one array with
\* prose, and brackets inside the prose, before or after it; no array at all
RawResponses ==
  {<<LB, Lit(ItemA), RB>>,
   <<Prose, LB, Lit(ItemA), RB>>,
   <<LB, Lit(ItemA), RB, Prose>>,
   <<Prose, LB, Lit(ItemA), Comma, Lit(ItemA), RB, Prose>>,
   <<LB, Lit(ItemA), RB, Prose, RB>>,
   <<LB, Lit(ItemA), RB, Prose, LB, Prose>>,
   <<Prose, LB, Prose, LB, Lit(ItemA), RB>>,
   <<Prose, RB, Prose, LB, Lit(ItemA), RB>>,
   <<Prose, LB, RB, Prose>>,
   <<Prose, LB, Lit(ItemBadDate), RB>>,
   <<Prose, LB, Lit(ItemNoDescription), RB, Prose>>,
   <<>>, <<Prose>>, <<Prose, RB>>, <<LB, Prose>>,
   <<Lit(ItemA)>>, <<Lit(Null)>>, <<Lit(Num)>>, <<Lit(Str(<<"a">>))>>}

Ready(fn, arg) == [fn |-> fn, arg |-> arg, state |-> "ready"]

InitPure ==
  /\ status = [f \in FileIds |-> "none"]
  /\ processingError = [f \in FileIds |-> <<>>]
  /\ extractedText = [f \in FileIds |-> Null]
  /\ mimeType = [f \in FileIds |-> ""]
  /\ userId = [f \in FileIds |-> 0]
  /\ assignments = <<>>
  /\ pc = [f \in FileIds |-> "idle"]
  /\ text = [f \in FileIds |-> Null]
  /\ attempt = [f \in FileIds |-> 1]
  /\ scheduleData = [f \in FileIds |-> <<>>]
  /\ idx = [f \in FileIds |-> 1]
  /\ caught = [f \in FileIds |-> <<>>]
  /\ strategyCalls = [f \in FileIds |-> <<>>]
  /\ remoteCalls = [f \in FileIds |-> 0]
  /\ attemptErrors = [f \in FileIds |-> <<>>]
  /\ waited = [f \in FileIds |-> <<>>]
  /\ ret = NoRet
  /\ NoRequest
  /\ \/ call \in {Ready("cleanText", Str(t)) : t \in Texts}
     \/ call \in {Ready("cleanText", v) : v \in {Null, Undefined}}
     \/ call \in {Ready("processFile", m) : m \in MimeInputs}
     \/ call \in {Ready("validateDate", v) : v \in DateInputs}
     \/ call \in {Ready("parseAndValidateResponse", elems) :
                    elems \in SeqsUpTo(ElementInputs, MaxItems)}
     \/ call \in {Ready("parseAndValidateResponse(content)", content) :
                    content \in RawResponses}

Apply(fn, result) ==
  /\ call.state = "ready"
  /\ call.fn = fn
  /\ call' = [call EXCEPT !.state = "done"]
  /\ ret' = result
  /\ UNCHANGED <<dbVars, runVars, obsVars, reqVars>>

CallCleanText == Apply("cleanText", Return(Str(cleanText(call.arg))))

\* processFile up to the strategy call
CallProcessFile == Apply("processFile", Dispatch(call.arg))

CallValidateDate == Apply("validateDate", Return(validateDate(call.arg)))

\* parseAndValidateResponse on the JSON text of the array call.arg
CallParseAndValidateResponse ==
  Apply("parseAndValidateResponse", parseAndValidateResponse(ArrayText(call.arg)))

\* parseAndValidateResponse on the raw response text call.arg
CallParseAndValidateContent ==
  Apply("parseAndValidateResponse(content)", parseAndValidateResponse(call.arg))

NextPure ==
  \/ CallCleanText
  \/ CallProcessFile
  \/ CallValidateDate
  \/ CallParseAndValidateResponse
  \/ CallParseAndValidateContent

SpecPure == InitPure /\ [][NextPure]_vars

Done(fn) == call.fn = fn /\ call.state = "done"

(***************************************************************************)
(* Runs and single function calls together                                 *)
(***************************************************************************)
InitAll == Init \/ InitPure

NextAll == Next \/ NextPure

SpecAll == InitAll /\ [][NextAll]_vars

(***************************************************************************)
(* The upload route: POST / behind upload.array('files', 5)                *)
(***************************************************************************)
\* file.mimetype of the files of the requests
UploadMimeTypes == {"text/plain", "application/zip", "constructor"}

\* a file filter that accepts every file
fileFilterAcceptAll(mimetype) == TRUE

\* fileFilter: cb(null, true) when supportedTypes.includes(file.mimetype),
\* cb(new Error(...), false) otherwise
fileFilter(mimetype) == mimetype \in getSupportedTypes

\* res.status(code).json({ files, errors })
Response(code, files, errs) == [code |-> code, files |-> files, errors |-> errs]

\* the element pushed to uploadedFiles for the row with that id
UploadedFile(id, mimetype) ==
  [id |-> id, mimeType |-> mimetype, status |-> "processing"]

\* position in req.files of the file of the current iteration of the loop
FileIndex == Len(uploadedFiles) + Len(uploadErrors) + 1

\* fileRecord.rows[0].id of the next row: the serial of uploaded_files
NextFileId == Len(uploadedFiles) + 1

\* multer runs fileFilter on each file and passes the first error to next(),
\* so the handler is not called; the handler answers 400 to a request with
\* no file and starts its loop otherwise
MulterUpload ==
  /\ hpc = "multer"
  /\ IF \E i \in 1..Len(reqFiles) : ~fileFilter(reqFiles[i])
     THEN hpc' = "rejected" /\ UNCHANGED response
     ELSE IF Len(reqFiles) = 0
          THEN hpc' = "sent" /\ response' = Response(400, <<>>, <<>>)
          ELSE hpc' = "insert" /\ UNCHANGED response
  /\ UNCHANGED <<dbVars, runVars, obsVars, pureVars, reqFiles, reqUser, uploadedFiles,
                 uploadErrors>>

\* the handler waiting for the run it has started before it goes on
InsertFileAwaitsRun ==
  /\ hpc = "insert"
  /\ \A g \in FileIds : pc[g] \in {"idle", "done", "rejected"}
  /\ LET file == reqFiles[FileIndex]
         f    == NextFileId
     IN /\ status' = [status EXCEPT ![f] = "processing"]
        /\ mimeType' = [mimeType EXCEPT ![f] = file]
        /\ userId' = [userId EXCEPT ![f] = reqUser]
        /\ pc' = [pc EXCEPT ![f] = "processFile"]
        /\ uploadedFiles' = Append(uploadedFiles, UploadedFile(f, file))
        /\ IF FileIndex = Len(reqFiles)
           THEN /\ hpc' = "awaitRun"
                /\ UNCHANGED response
           ELSE /\ hpc' = "insert"
                /\ UNCHANGED response
  /\ UNCHANGED <<processingError, extractedText, assignments, text, attempt,
                 scheduleData, idx, caught, obsVars, pureVars, reqFiles, reqUser,
                 uploadErrors>>

\* the iteration with processFileAsync called before the INSERT is awaited:
\* the run is started whether or not the record is created
InsertFileStartsRunAnyway ==
  /\ hpc = "insert"
  /\ LET file == reqFiles[FileIndex]
         f    == NextFileId
     IN /\ mimeType' = [mimeType EXCEPT ![f] = file]
        /\ userId' = [userId EXCEPT ![f] = reqUser]
        /\ pc' = [pc EXCEPT ![f] = "processFile"]
        /\ \/ /\ status' = [status EXCEPT ![f] = "processing"]
              /\ uploadedFiles' = Append(uploadedFiles, UploadedFile(f, file))
              /\ UNCHANGED uploadErrors
              /\ IF FileIndex = Len(reqFiles)
                 THEN /\ hpc' = "sent"
                      /\ response' = Response(201, uploadedFiles', uploadErrors)
                 ELSE /\ hpc' = "insert"
                      /\ UNCHANGED response
           \/ /\ uploadErrors' = Append(uploadErrors, StorageError)
              /\ hpc' = "unlink"
              /\ UNCHANGED <<status, uploadedFiles, response>>
  /\ UNCHANGED <<processingError, extractedText, assignments, text, attempt,
                 scheduleData, idx, caught, obsVars, pureVars, reqFiles, reqUser>>

\* one iteration of for (const file of req.files): await query(INSERT INTO
\* uploaded_files ... 'processing'), processFileAsync(...) not awaited,
\* uploadedFiles.push; after the last file res.status(201).json(...).
\* A failed INSERT goes to the catch clause of the iteration.
InsertFile ==
  /\ hpc = "insert"
  /\ LET file == reqFiles[FileIndex]
         f    == NextFileId
     IN \/ /\ status' = [status EXCEPT ![f] = "processing"]
           /\ mimeType' = [mimeType EXCEPT ![f] = file]
           /\ userId' = [userId EXCEPT ![f] = reqUser]
           /\ pc' = [pc EXCEPT ![f] = "processFile"]
           /\ uploadedFiles' = Append(uploadedFiles, UploadedFile(f, file))
           /\ UNCHANGED uploadErrors
           /\ IF FileIndex = Len(reqFiles)
              THEN /\ hpc' = "sent"
                   /\ response' = Response(201, uploadedFiles', uploadErrors)
              ELSE /\ hpc' = "insert"
                   /\ UNCHANGED response
        \/ /\ uploadErrors' = Append(uploadErrors, StorageError)
           /\ hpc' = "unlink"
           /\ UNCHANGED <<status, mimeType, userId, pc, uploadedFiles, response>>
  /\ UNCHANGED <<processingError, extractedText, assignments, text, attempt,
                 scheduleData, idx, caught, obsVars, pureVars, reqFiles, reqUser>>

\* await fs.unlink(file.path) of the catch clause, then the next iteration
\* or, after the last file, res.status(201).json(...)
Unlink ==
  /\ hpc = "unlink"
  /\ IF FileIndex > Len(reqFiles)
     THEN /\ hpc' = "sent"
          /\ response' = Response(201, uploadedFiles, uploadErrors)
     ELSE /\ hpc' = "insert"
          /\ UNCHANGED response
  /\ UNCHANGED <<dbVars, runVars, obsVars, pureVars, reqFiles, reqUser, uploadedFiles,
                 uploadErrors>>

\* the list extractScheduleData returns for the response [ItemA]
UploadItems == AttemptOutcome(Completion(<<LB, Lit(ItemA), RB>>)).v

\* the collaborators of the runs of the uploaded files: the strategy
\* returns the text "a b", the remote call fails with a connection error or
\* returns the array of ItemA
UploadWorld(f) ==
  /\ text[f] \in {Null, Str(<<"a", SP, "b">>)}
  /\ \A i \in 1..Len(attemptErrors[f]) : attemptErrors[f][i] = <<"Connection error.">>
  /\ scheduleData[f] \in {<<>>, UploadItems}
  /\ pc[f] = "markCompleted" => scheduleData[f] # <<>>

\* a step of the run of an uploaded file
UploadedRunStep(f) == RunStep(f) /\ UploadWorld(f)'

\* a request with up to NumFiles files has arrived; no file has a row
InitUpload ==
  /\ status = [f \in FileIds |-> "none"]
  /\ processingError = [f \in FileIds |-> <<>>]
  /\ extractedText = [f \in FileIds |-> Null]
  /\ mimeType = [f \in FileIds |-> ""]
  /\ userId = [f \in FileIds |-> 0]
  /\ assignments = <<>>
  /\ pc = [f \in FileIds |-> "idle"]
  /\ text = [f \in FileIds |-> Null]
  /\ attempt = [f \in FileIds |-> 1]
  /\ scheduleData = [f \in FileIds |-> <<>>]
  /\ idx = [f \in FileIds |-> 1]
  /\ caught = [f \in FileIds |-> <<>>]
  /\ strategyCalls = [f \in FileIds |-> <<>>]
  /\ remoteCalls = [f \in FileIds |-> 0]
  /\ attemptErrors = [f \in FileIds |-> <<>>]
  /\ waited = [f \in FileIds |-> <<>>]
  /\ call = NoCall
  /\ ret = NoRet
  /\ reqFiles \in SeqsUpTo(UploadMimeTypes, NumFiles)
  /\ hpc = "multer"
  /\ uploadedFiles = <<>>
  /\ uploadErrors = <<>>
  /\ response = NoResponse
  /\ reqUser \in UserIds

NextUpload ==
  \/ MulterUpload
  \/ InsertFile
  \/ Unlink
  \/ \E f \in FileIds : UploadedRunStep(f)

SpecUpload == InitUpload /\ [][NextUpload]_vars

(***************************************************************************)
(* Properties                                                              *)
(***************************************************************************)
\* s has a character that trim does not strip
HasVisibleChar(s) == \E i \in 1..Len(s) : s[i] \notin WhiteSpace

\* v is a string that is non-empty after trimming
NonBlankString(v) == IsString(v) /\ HasVisibleChar(v.s)

LeapYear(y) == (y % 4 = 0 /\ y % 100 # 0) \/ y % 400 = 0

DaysInMonth(y, m) ==
  IF m = 2 THEN (IF LeapYear(y) THEN 29 ELSE 28)
  ELSE IF m \in {4, 6, 9, 11} THEN 30 ELSE 31

\* v is a string YYYY-MM-DD naming a day of the calendar
IsRealDate(v) ==
  /\ IsString(v)
  /\ Len(v.s) = 10
  /\ v.s[5] = "-" /\ v.s[8] = "-"
  /\ \A i \in {1, 2, 3, 4, 6, 7, 9, 10} : v.s[i] \in Digits
  /\ LET y == ParseInt(SubSeq(v.s, 1, 4))
         m == ParseInt(SubSeq(v.s, 6, 7))
         d == ParseInt(SubSeq(v.s, 9, 10))
     IN m \in 1..12 /\ d >= 1 /\ d <= DaysInMonth(y, m)

\* the element has the two mandatory fields
MandatoryFieldsOK(e) ==
  /\ e.t = "object"
  /\ NonBlankString(e.assignment)
  /\ NonBlankString(e.source)

\* C6: every item of a list returned by parseAndValidateResponse has an
\* assignment and a source that are strings with a non-whitespace character,
\* and a response is accepted only if every one of its elements is an object
\* whose assignment and source are such strings.
C6_ItemsHaveDescriptionAndSource ==
  (Done("parseAndValidateResponse") /\ ret.ok) =>
     /\ \A i \in 1..Len(ret.v) :
          NonBlankString(ret.v[i].assignment) /\ NonBlankString(ret.v[i].source)
     /\ \A i \in 1..Len(call.arg) : MandatoryFieldsOK(call.arg[i])

\* a two-element response with untrimmed fields was accepted
C6_Witness ==
  /\ Done("parseAndValidateResponse")
  /\ ret.ok
  /\ Len(ret.v) = 2
  /\ call.arg[1].assignment = Str(<<SP, "a", SP, "b", LF>>)
  /\ call.arg[2].source = Str(<<SP, "a", SP, "b", LF>>)

C9_DispatchIffSupported ==
  Done("processFile") =>
     /\ (ret.strategy \in StrategyFamilies) <=> isSupported(call.arg)
     /\ isSupported(call.arg) =>
          ret.strategy = supportedTypes[call.arg] /\ ret.error = <<>>
     /\ ~isSupported(call.arg) => ret.strategy = "none" /\ ret.error # <<>>
     /\ call.arg \in ObjectPrototypeKeys => ret.strategy = "none"
     /\ Cardinality(getSupportedTypes) = 10

\* processFile was called with the inherited property name constructor
C9_Witness ==
  /\ Done("processFile")
  /\ call.arg = "constructor"
  /\ ret.strategy = "none"

\* C10: cleanText is idempotent: applied to its own result, it returns it.
C10_CleanTextIdempotent ==
  Done("cleanText") => cleanText(ret.v) = ret.v.s

\* cleanText changed a text with a tab, a space and a CRLF inside
C10_Witness ==
  /\ Done("cleanText")
  /\ call.arg.s = <<"a", TAB, SP, CR, LF>>
  /\ ret.v.s = <<"a">>

\* the run of f has ended: its promise is fulfilled or rejected
Ended(f) == pc[f] \in {"done", "rejected"}

\* msg is the message of the error thrown when the attempts are used up
IsExhausted(msg) == msg # <<>> /\ msg[1] = "OpenAI request failed after "

RowsOf(f) == {i \in 1..Len(assignments) : assignments[i].file_id = f}

\* C1: once the persisted status of a file is completed or failed, no step
\* changes it.
C1_TerminalStatusAbsorbing ==
  [][\A f \in FileIds :
       status[f] \in {"completed", "failed"} => status'[f] = status[f]]_vars

\* a run failed after its text was persisted, and has ended
C1_Witness ==
  /\ status[1] = "failed"
  /\ extractedText[1] # Null
  /\ pc[1] = "done"

\* C2: every change of a persisted status is processing -> text_extracted,
\* text_extracted -> completed, processing -> failed or text_extracted -> failed.
C2_StatusTransitions ==
  [][\A f \in FileIds :
       status'[f] # status[f] =>
         <<status[f], status'[f]>> \in
           {<<"processing", "text_extracted">>, <<"text_extracted", "completed">>,
            <<"processing", "failed">>, <<"text_extracted", "failed">>}]_vars

\* a run completed after two inserts
C2_Witness ==
  /\ status[1] = "completed"
  /\ Len(assignments) = 2
  /\ pc[1] = "done"

\* C3: the remote capability is called at most 3 times per extraction, every
\* failed attempt of whatever kind counting; it is called exactly 3 times when
\* every attempt fails, and then one error, the exhaustion error, is thrown.
C3_AtMostThreeAttempts ==
  \A f \in FileIds :
    /\ remoteCalls[f] <= 3
    /\ Len(attemptErrors[f]) <= remoteCalls[f]
    /\ remoteCalls[f] <= Len(attemptErrors[f]) + 1
    /\ Len(attemptErrors[f]) = 3 <=> IsExhausted(caught[f])
    /\ Len(attemptErrors[f]) = 3 =>
         /\ remoteCalls[f] = 3
         /\ pc[f] \in {"catch", "done", "rejected"}
         /\ scheduleData[f] = <<>>

\* three attempts failed, each in another way: transport error, no content,
\* invalid response
C3_Witness ==
  /\ remoteCalls[1] = 3
  /\ Len(attemptErrors[1]) = 3
  /\ attemptErrors[1][1] = <<"Connection error.">>
  /\ attemptErrors[1][2] = <<"No content received from OpenAI">>
  /\ attemptErrors[1][3][1] = "Invalid JSON response from OpenAI: "
  /\ pc[1] = "catch"

\* C4: when all 3 attempts fail, the error thrown says the 3 attempts are
\* used up and carries the message of the third attempt's error, after one
\* wrapper only; it is the message recorded with status failed.
C4_ExhaustedErrorHasFinalCause ==
  \A f \in FileIds :
    Len(attemptErrors[f]) = 3 =>
      /\ caught[f] = <<"OpenAI request failed after ", "3", " attempts: ">>
                       \o attemptErrors[f][3]
      /\ \A i \in 2..Len(caught[f]) : caught[f][i] # "OpenAI request failed after "
      /\ status[f] = "failed" => processingError[f] = caught[f]

\* three attempts failed with different causes and the file is failed
C4_Witness ==
  /\ Len(attemptErrors[1]) = 3
  /\ attemptErrors[1][1] = <<"Connection error.">>
  /\ attemptErrors[1][2] = <<"Unexpected token in JSON">>
       \/ attemptErrors[1][2] = <<"No content received from OpenAI">>
  /\ attemptErrors[1][3] = <<"Invalid JSON response from OpenAI: ", "assignment",
                             " must be a non-empty string">>
  /\ status[1] = "failed"

\* C5: the n-th wait of an extraction lasts n * retryDelay; there is one wait
\* between two consecutive attempts, none before the first attempt and none
\* after the third, so a fully failed extraction has waited 3 * retryDelay.
C5_LinearBackoff ==
  \A f \in FileIds :
    /\ \A n \in 1..Len(waited[f]) : waited[f][n] = n * retryDelay
    /\ Len(waited[f]) = attempt[f] - 1
    /\ Len(waited[f]) <= 2
    /\ Len(waited[f]) = IF pc[f] = "request" \/ remoteCalls[f] = 0
                        THEN remoteCalls[f] ELSE remoteCalls[f] - 1
    /\ Len(attemptErrors[f]) = 3 =>
         /\ Len(waited[f]) = 2
         /\ waited[f][1] + waited[f][2] = 3 * retryDelay

\* a fully failed extraction: two waits
C5_Witness ==
  /\ Len(attemptErrors[1]) = 3
  /\ waited[1] = <<1000, 2000>>
  /\ remoteCalls[1] = 3

\* a run was started for f with a content type that is not supported
UnsupportedRun(f) == pc[f] # "idle" /\ ~isSupported(mimeType[f])

\* what a run with an unsupported type never does
NoStageRan(f) ==
  /\ strategyCalls[f] = <<>>
  /\ remoteCalls[f] = 0
  /\ status[f] \in {"processing", "failed"}
  /\ extractedText[f] = Null
  /\ RowsOf(f) = {}

LastDurableStatus(f) ==
  IF extractedText[f] = Null THEN "processing" ELSE "text_extracted"

\* a repository write of the try block of the run of f has failed
WriteFailed(f) == caught[f] = StorageError

\* C11 as stated: a started run that can take no further step has left the
\* file completed or failed.
C11_StoppedRunIsTerminal ==
  \A f \in FileIds :
    (pc[f] # "idle" /\ ~ENABLED RunStep(f)) =>
      status[f] \in {"completed", "failed"}

\* C11 amended: every started run eventually ends; it leaves the file
\* completed or failed unless the update recording the failure failed, and
\* then the status stays processing or text_extracted for ever.
C11_RunEventuallyEnds ==
  /\ \A f \in FileIds : (pc[f] # "idle") ~> Ended(f)
  /\ [](\A f \in FileIds :
         /\ pc[f] = "done" => status[f] \in {"completed", "failed"}
         /\ pc[f] = "rejected" =>
              /\ status[f] = LastDurableStatus(f)
              /\ caught[f] # <<>>)
  /\ [][\A f \in FileIds :
         Ended(f) => pc'[f] = pc[f] /\ status'[f] = status[f]]_vars

\* after three attempts and two waits the run has ended, and the update
\* recording the failure has failed: the status is still text_extracted
C11_Witness ==
  /\ pc[1] = "rejected"
  /\ status[1] = "text_extracted"
  /\ remoteCalls[1] = 3
  /\ Len(waited[1]) = 2
  /\ IsExhausted(caught[1])

C13_NoRejection == \A f \in FileIds : pc[f] # "rejected"

\* why the run of f threw, apart from a failed repository write
FailureKind(f) ==
  IF pc[f] \in {"idle", "processFile"} THEN "none"
  ELSE IF strategyCalls[f] = <<>> THEN "unsupported"
  ELSE IF text[f] = Null THEN "strategy"
  ELSE IF Len(attemptErrors[f]) = maxRetries THEN "exhausted"
  ELSE "none"

\* the message of the error thrown for that reason
FailureMessage(f) ==
  CASE FailureKind(f) = "unsupported" -> Dispatch(mimeType[f]).error
    [] FailureKind(f) = "strategy" -> StrategyError(strategyCalls[f][1])
    [] FailureKind(f) = "exhausted" -> ExhaustedError(attemptErrors[f])
    [] OTHER -> <<>>

\* C14 as stated: a run that has ended because of an unsupported type, a
\* failed strategy or three failed attempts has left the file failed, with
\* the non-empty message of that error as processingError.
C14_ErrorEndsFailed ==
  \A f \in FileIds :
    (Ended(f) /\ FailureKind(f) # "none") =>
      /\ status[f] = "failed"
      /\ processingError[f] = FailureMessage(f)
      /\ processingError[f] # <<>>

\* C14 amended: such a run goes to the catch clause with the message of
\* that error, which is not empty and, after three failed attempts, names
\* the 3 attempts; the file ends failed with that message as processingError
\* if the update recording the failure succeeds, and keeps its last written
\* status with no processingError if that update fails.
C14_ErrorRecordedByCatch ==
  \A f \in FileIds :
    FailureKind(f) # "none" =>
      /\ pc[f] \in {"catch", "done", "rejected"}
      /\ caught[f] = FailureMessage(f)
      /\ caught[f] # <<>>
      /\ FailureKind(f) = "exhausted" =>
           /\ caught[f][1] = "OpenAI request failed after "
           /\ caught[f][2] = "3"
           /\ caught[f][3] = " attempts: "
      /\ pc[f] = "done" =>
           status[f] = "failed" /\ processingError[f] = caught[f]
      /\ pc[f] # "done" =>
           status[f] = LastDurableStatus(f) /\ processingError[f] = <<>>

\* the pdf strategy threw and the file has ended failed with its message
C14_Witness ==
  /\ FailureKind(1) = "strategy"
  /\ pc[1] = "done"
  /\ status[1] = "failed"
  /\ processingError[1] = <<"PDF processing failed: ", "cause">>

\* C15: a file whose status is not completed has no persisted assignment.
C15_NoPartialList ==
  \A f \in FileIds : status[f] # "completed" => RowsOf(f) = {}

\* the rows of the assignments table of file f, in insertion order
RowSeqOf(f) == SelectSeq(assignments, LAMBDA r : r.file_id = f)

\* C16: when the status of a file is completed, its assignments are the
\* items of the validated list of the run, one row per item and no other
\* row: as many rows as items.
C16_CompletedHasAllItems ==
  \A f \in FileIds :
    status[f] = "completed" =>
      /\ Len(RowSeqOf(f)) = Len(scheduleData[f])
      /\ \A i \in 1..Len(scheduleData[f]) :
           RowSeqOf(f)[i] = AssignmentRow(f, scheduleData[f][i])

\* a completed file with the two items of the response as its rows
C16_Witness ==
  /\ status[1] = "completed"
  /\ Len(scheduleData[1]) = 2
  /\ Len(assignments) = 2
  /\ assignments[1].assignment # assignments[2].assignment

\* C17: processingError is set only while the status is failed, and a step
\* that writes processingError writes the status failed.
C17_ErrorOnlyWithFailed ==
  /\ [](\A f \in FileIds : processingError[f] # <<>> => status[f] = "failed")
  /\ [][\A f \in FileIds :
         processingError'[f] # processingError[f] =>
           status[f] # "failed" /\ status'[f] = "failed"]_vars

\* a file failed after its text was extracted carries the error
C17_Witness ==
  /\ status[1] = "failed"
  /\ processingError[1] = StorageError
  /\ extractedText[1] # Null

\* C18: the step that writes the status text_extracted writes extractedText,
\* so a file text_extracted or completed has its extractedText; no other
\* step writes extractedText, the one recording failed included.
C18_ExtractedTextWrittenOnce ==
  /\ [](\A f \in FileIds :
         status[f] \in {"text_extracted", "completed"} =>
           extractedText[f] # Null /\ extractedText[f] = text[f])
  /\ [][\A f \in FileIds :
         /\ (status[f] # "text_extracted" /\ status'[f] = "text_extracted") =>
              extractedText'[f] = text[f] /\ extractedText'[f] # Null
         /\ extractedText'[f] # extractedText[f] =>
              /\ extractedText[f] = Null
              /\ status[f] = "processing"
              /\ status'[f] = "text_extracted"]_vars

\* the attempts were used up after the text "a b" was written: the file is
\* failed and has kept the text
C18_Witness ==
  /\ status[1] = "failed"
  /\ IsExhausted(processingError[1])
  /\ extractedText[1] = Str(<<"a", SP, "b">>)

\* an attempt of the run of f succeeded: every failed attempt has left an
\* error, so one call more than errors is a call whose response was accepted
Succeeded(f) == remoteCalls[f] = Len(attemptErrors[f]) + 1 /\ pc[f] # "request"

\* the response accepted by the run of f was an array of no items
AcceptedEmpty(f) == Succeeded(f) /\ scheduleData[f] = <<>>

\* parseAndValidateResponse returns the empty list for the text []
EmptyArrayReturnsNoItems ==
  (Done("parseAndValidateResponse") /\ call.arg = <<>>) => ret = Return(<<>>)

\* C19 as stated: the response [] is accepted as a list of no items, no
\* assignment is persisted and the run leaves the file completed.
C19_EmptyArrayEndsCompleted ==
  /\ EmptyArrayReturnsNoItems
  /\ \A f \in FileIds :
       AcceptedEmpty(f) =>
         /\ RowsOf(f) = {}
         /\ Ended(f) => status[f] = "completed"

\* C19 amended: the response [] is accepted on its attempt as a list of no
\* items: no further attempt and no wait follow, no assignment is persisted
\* and the next step is the completed update. The file ends completed if that
\* update succeeds; if it fails the catch clause records failed, and the
\* status stays text_extracted if that fails too.
C19_EmptyArrayAccepted ==
  /\ []EmptyArrayReturnsNoItems
  /\ [](\A f \in FileIds :
         AcceptedEmpty(f) =>
           /\ RowsOf(f) = {}
           /\ pc[f] \in {"markCompleted", "catch", "done", "rejected"}
           /\ pc[f] = "markCompleted" => status[f] = "text_extracted"
           /\ (pc[f] # "markCompleted" /\ ~WriteFailed(f)) =>
                pc[f] = "done" /\ status[f] = "completed"
           /\ WriteFailed(f) =>
                status[f] = IF pc[f] = "done" THEN "failed" ELSE "text_extracted")
  /\ [][\A f \in FileIds :
         AcceptedEmpty(f) =>
           /\ remoteCalls'[f] = remoteCalls[f]
           /\ attemptErrors'[f] = attemptErrors[f]
           /\ waited'[f] = waited[f]
           /\ assignments' = assignments]_vars

\* the second attempt returned [] after the first one failed: the file is
\* completed after two calls and one wait, with no assignment
C19_Witness ==
  /\ AcceptedEmpty(1)
  /\ status[1] = "completed"
  /\ remoteCalls[1] = 2
  /\ waited[1] = <<1000>>
  /\ assignments = <<>>

\* the strategy of the run of f returned a text that cleanText made empty
EmptyText(f) == text[f] = Str(<<>>)

\* C20 as stated: a run whose text is empty writes text_extracted with the
\* empty text and makes the remote call; it does not leave the file failed
\* unless the attempts are used up, and leaves it completed with no
\* assignment when the response is [].
C20_EmptyTextEndsCompleted ==
  \A f \in FileIds :
    EmptyText(f) =>
      /\ pc[f] # "updateText" => extractedText[f] = Str(<<>>)
      /\ Ended(f) => remoteCalls[f] >= 1
      /\ status[f] = "failed" => IsExhausted(processingError[f])
      /\ (Ended(f) /\ AcceptedEmpty(f)) =>
           status[f] = "completed" /\ RowsOf(f) = {}

\* C20 amended: a run whose text is empty goes on as any other run: unless
\* the text_extracted update fails it writes text_extracted with the empty
\* text and then makes the remote call; the file becomes failed only after a
\* failed repository write or three failed attempts, never for the empty
\* text; after the response [] it has no assignment and is completed unless
\* the completed update fails.
C20_EmptyTextIsNoFailure ==
  /\ [](\A f \in FileIds :
         EmptyText(f) =>
           /\ (pc[f] # "updateText" /\ ~(WriteFailed(f) /\ remoteCalls[f] = 0)) =>
                /\ extractedText[f] = Str(<<>>)
                /\ pc[f] = "request" \/ remoteCalls[f] >= 1
           /\ (WriteFailed(f) /\ remoteCalls[f] = 0) => extractedText[f] = Null
           /\ caught[f] # <<>> => WriteFailed(f) \/ IsExhausted(caught[f])
           /\ status[f] = "failed" =>
                processingError[f] = StorageError \/ IsExhausted(processingError[f])
           /\ AcceptedEmpty(f) =>
                /\ RowsOf(f) = {}
                /\ (Ended(f) /\ ~WriteFailed(f)) => status[f] = "completed")
  /\ [][\A f \in FileIds :
         (EmptyText(f) /\ pc[f] = "updateText" /\ pc'[f] # "updateText") =>
           \/ /\ pc'[f] = "request"
              /\ status'[f] = "text_extracted"
              /\ extractedText'[f] = Str(<<>>)
           \/ /\ pc'[f] = "catch"
              /\ caught'[f] = StorageError]_vars

\* a text of a space and a line feed became the empty text, was written with
\* text_extracted, the first response was [] and the file is completed
C20_Witness ==
  /\ EmptyText(1)
  /\ extractedText[1] = Str(<<>>)
  /\ remoteCalls[1] = 1
  /\ AcceptedEmpty(1)
  /\ status[1] = "completed"
  /\ assignments = <<>>

\* what the run of f holds in memory, and what is persisted for file f
RunLocal(f) ==
  <<pc[f], text[f], attempt[f], scheduleData[f], idx[f], caught[f],
    strategyCalls[f], remoteCalls[f], attemptErrors[f], waited[f]>>
FileData(f) == <<status[f], extractedText[f], processingError[f], RowSeqOf(f)>>

\* what the run of f, executed alone, has persisted when it is where it is
AloneStatus(f) ==
  CASE pc[f] = "idle" -> "none"
    [] pc[f] \in {"processFile", "updateText"} -> "processing"
    [] pc[f] \in {"request", "backoff", "insert", "markCompleted"} -> "text_extracted"
    [] pc[f] = "done" -> IF caught[f] = <<>> THEN "completed" ELSE "failed"
    [] OTHER -> IF remoteCalls[f] = 0 THEN "processing" ELSE "text_extracted"
AloneText(f) ==
  IF remoteCalls[f] > 0 \/ pc[f] = "request" THEN text[f] ELSE Null
AloneError(f) == IF pc[f] = "done" THEN caught[f] ELSE <<>>
AloneRows(f) ==
  [i \in 1..(idx[f] - 1) |-> AssignmentRow(f, scheduleData[f][i])]

\* C21: a step of a run changes the status, extractedText, processingError
\* and assignments of its own file only, whatever the other runs do; and
\* what is persisted for a file is what its run alone has written.
C21_RunsDoNotInterfere ==
  /\ [](\A f \in FileIds :
         FileData(f) = <<AloneStatus(f), AloneText(f), AloneError(f), AloneRows(f)>>)
  /\ [][\A f \in FileIds :
         /\ RunLocal(f)' = RunLocal(f) => FileData(f)' = FileData(f)
         /\ FileData(f)' # FileData(f) =>
              \A g \in FileIds \ {f} : FileData(g)' = FileData(g)
         /\ Len(assignments') > Len(assignments) =>
              /\ SubSeq(assignments', 1, Len(assignments)) = assignments
              /\ Len(assignments') = Len(assignments) + 1]_vars

\* two runs interleaved: the row of file 2 was inserted before the row of
\* file 1; file 1 is completed, file 2 failed on its completed update
C21_Witness ==
  /\ Len(assignments) = 2
  /\ assignments[1].file_id = 2
  /\ assignments[2].file_id = 1
  /\ status[1] = "completed"
  /\ status[2] = "failed"
  /\ processingError[2] = StorageError

\* C22: the handler never waits for a run: its next step can be taken
\* wherever the runs are, the row of the last file is created in the step
\* that sends the response, the response reports processing for every file
\* it lists, and no step of a run changes what the handler holds or has sent.
C22_ResponseIndependentOfRuns ==
  /\ [](hpc = "insert" => ENABLED InsertFile)
  /\ [](hpc = "unlink" => ENABLED Unlink)
  /\ []((hpc = "sent" /\ response.code = 201) =>
          /\ response.files = uploadedFiles
          /\ Len(uploadedFiles) + Len(uploadErrors) = Len(reqFiles)
          /\ \A i \in 1..Len(response.files) :
               /\ response.files[i].status = "processing"
               /\ status[response.files[i].id] # "none")
  /\ [][/\ response # NoResponse => response' = response
        /\ (Len(uploadedFiles') > Len(uploadedFiles)
              /\ Len(uploadedFiles') + Len(uploadErrors) = Len(reqFiles)) =>
             response'.code = 201
        /\ reqVars' # reqVars =>
             \A f \in FileIds : pc[f] # "idle" => RunLocal(f)' = RunLocal(f)]_vars

\* the response for two files has been sent while the run of file 1 has
\* written text_extracted and the run of file 2 has not taken a step
C22_Witness ==
  /\ hpc = "sent"
  /\ response.code = 201
  /\ Len(response.files) = 2
  /\ status[1] = "text_extracted"
  /\ pc[1] = "request"
  /\ pc[2] = "processFile"

\* C23: the row of a file is created with status pending.
C23_CreatedPending ==
  [][\A f \in FileIds :
       (status[f] = "none" /\ status'[f] # "none") => status'[f] = "pending"]_vars

\* C24: no line of the result of cleanText ends with a space or a tab.
C24_NoLineEndsWithBlank ==
  Done("cleanText") =>
    \A i \in 2..Len(ret.v.s) :
      ret.v.s[i] = LF => ret.v.s[i - 1] \notin {SP, TAB}

\* C25: cleanText returns the empty string for the empty string, null and
\* undefined.
C25_EmptyInputGivesEmptyString ==
  (Done("cleanText") /\ call.arg \in {Str(<<>>), Null, Undefined}) =>
    ret = Return(Str(<<>>))

\* cleanText(undefined) has returned ''
C25_Witness ==
  /\ Done("cleanText")
  /\ call.arg = Undefined
  /\ ret.ok
  /\ ret.v = Str(<<>>)

\* C26: a request with a file of an unsupported type creates no row and
\* starts no run, so every row and every run has a supported type.
C26_OnlySupportedTypesRun ==
  /\ \A f \in FileIds :
       (status[f] # "none" \/ pc[f] # "idle") =>
         /\ isSupported(mimeType[f])
         /\ \E i \in 1..Len(uploadedFiles) :
              uploadedFiles[i].id = f /\ uploadedFiles[i].mimeType = mimeType[f]
  /\ (\E i \in 1..Len(reqFiles) : ~isSupported(reqFiles[i])) =>
       /\ hpc \in {"multer", "rejected"}
       /\ uploadedFiles = <<>>
       /\ response = NoResponse
       /\ \A f \in FileIds : status[f] = "none" /\ pc[f] = "idle"

\* a request with a text file and a zip archive has been refused, and no
\* file has a row
C26_Witness ==
  /\ reqFiles = <<"text/plain", "application/zip">>
  /\ hpc = "rejected"
  /\ \A f \in FileIds : status[f] = "none" /\ pc[f] = "idle"

\* the stage the run of f is in
StageOf(f) ==
  CASE pc[f] = "idle" -> 0
    [] pc[f] = "processFile" -> 1
    [] pc[f] = "updateText" -> 2
    [] pc[f] \in {"request", "backoff"} -> 3
    [] pc[f] = "insert" -> 4
    [] pc[f] = "markCompleted" -> 5
    [] OTHER -> 6

\* the stages whose effect the step has produced for f: strategy call,
\* text_extracted write, remote call, insert, completed write
StagesActing(f) ==
  {k \in 1..5 :
     \/ k = 1 /\ strategyCalls'[f] # strategyCalls[f]
     \/ k = 2 /\ extractedText'[f] # extractedText[f]
     \/ k = 3 /\ remoteCalls'[f] # remoteCalls[f]
     \/ k = 4 /\ RowSeqOf(f)' # RowSeqOf(f)
     \/ k = 5 /\ status'[f] = "completed" /\ status[f] # "completed"}

\* C27: in a run the strategy has returned before text_extracted is
\* written, that write is done before the first remote call, the validated
\* list is there before the first insert, all inserts are done before
\* completed is written, and no step acts for two stages or goes back.
C27_StagesInOrder ==
  /\ [](\A f \in FileIds :
         /\ extractedText[f] # Null =>
              Len(strategyCalls[f]) = 1 /\ text[f] # Null /\ StageOf(f) >= 3
         /\ remoteCalls[f] >= 1 =>
              /\ extractedText[f] = text[f]
              /\ extractedText[f] # Null
              /\ status[f] # "processing"
         /\ RowsOf(f) # {} =>
              /\ remoteCalls[f] = Len(attemptErrors[f]) + 1
              /\ Len(scheduleData[f]) >= Cardinality(RowsOf(f))
              /\ StageOf(f) >= 4
         /\ status[f] = "completed" =>
              /\ idx[f] = Len(scheduleData[f]) + 1
              /\ Cardinality(RowsOf(f)) = Len(scheduleData[f])
              /\ pc[f] = "done")
  /\ [][\A f \in FileIds :
         /\ Cardinality(StagesActing(f)) <= 1
         /\ \A k \in StagesActing(f) : StageOf(f) = k
         /\ StageOf(f)' >= StageOf(f)]_vars

\* a run that went through every stage: one strategy call, the text
\* written, a failed and an accepted remote call, two inserts, completed
C27_Witness ==
  /\ status[1] = "completed"
  /\ strategyCalls[1] = <<"image">>
  /\ remoteCalls[1] = 2
  /\ Len(assignments) = 2
  /\ extractedText[1] = Str(<<"a", SP, "b">>)

\* C28 as stated: a run whose strategy failed has invoked one strategy, makes
\* no remote call, and has left the file failed when it has ended.
C28_StrategyFailureEndsFailed ==
  \A f \in FileIds :
    FailureKind(f) = "strategy" =>
      /\ Len(strategyCalls[f]) = 1
      /\ remoteCalls[f] = 0
      /\ Ended(f) => status[f] = "failed"

\* C28 amended: a run invokes at most one strategy; after its strategy has
\* failed it invokes no strategy again, makes no remote call and writes no
\* text and no assignment; the only status change that can follow is from
\* processing to failed, made by the update recording the failure if that
\* update succeeds; if it fails the status stays processing.
C28_StrategyFailureIsFatal ==
  /\ [](\A f \in FileIds :
         /\ Len(strategyCalls[f]) <= 1
         /\ FailureKind(f) = "strategy" =>
              /\ pc[f] \in {"catch", "done", "rejected"}
              /\ caught[f] = StrategyError(strategyCalls[f][1])
              /\ remoteCalls[f] = 0
              /\ extractedText[f] = Null
              /\ RowsOf(f) = {}
              /\ status[f] = IF pc[f] = "done" THEN "failed" ELSE "processing")
  /\ [][\A f \in FileIds :
         FailureKind(f) = "strategy" =>
           /\ strategyCalls'[f] = strategyCalls[f]
           /\ remoteCalls'[f] = remoteCalls[f]
           /\ status'[f] # status[f] =>
                status[f] = "processing" /\ status'[f] = "failed"]_vars

\* the word strategy threw and the update recording the failure succeeded
C28_Witness ==
  /\ strategyCalls[1] = <<"word">>
  /\ text[1] = Null
  /\ remoteCalls[1] = 0
  /\ pc[1] = "done"
  /\ status[1] = "failed"
  /\ processingError[1] = <<"Word processing failed: ", "cause">>

\* C29: once the status of a file is failed its run has ended: no step
\* invokes a strategy, makes a remote call or writes anything for the file.
C29_NothingAfterFailed ==
  /\ [](\A f \in FileIds : status[f] = "failed" => pc[f] = "done")
  /\ [][\A f \in FileIds :
         status[f] = "failed" =>
           /\ RunLocal(f)' = RunLocal(f)
           /\ FileData(f)' = FileData(f)]_vars

\* a file failed after three attempts; its run has ended
C29_Witness ==
  /\ status[1] = "failed"
  /\ pc[1] = "done"
  /\ remoteCalls[1] = 3
  /\ Len(strategyCalls[1]) = 1
  /\ assignments = <<>>

\* C30: a response with an element that is not an object, or whose
\* assignment or source is missing, not a string or blank, is refused as a
\* whole: parseAndValidateResponse throws and returns no item; in a run the
\* attempt is one of the three: it leaves an error, no list and no row.
C30_ValidationFailFast ==
  /\ []((Done("parseAndValidateResponse")
           /\ \E i \in 1..Len(call.arg) : ~MandatoryFieldsOK(call.arg[i])) =>
          /\ ~ret.ok
          /\ ret.v = Null
          /\ ret.error[1] = "Invalid JSON response from OpenAI: ")
  /\ [](\A f \in FileIds :
         /\ Len(attemptErrors[f]) <= remoteCalls[f]
         /\ remoteCalls[f] <= maxRetries
         /\ \A i \in 1..Len(scheduleData[f]) : MandatoryFieldsOK(scheduleData[f][i]))
  /\ [][\A f \in FileIds :
         attemptErrors'[f] # attemptErrors[f] =>
           /\ Len(attemptErrors'[f]) = Len(attemptErrors[f]) + 1
           /\ remoteCalls'[f] = remoteCalls[f] + 1
           /\ scheduleData'[f] = <<>>
           /\ assignments' = assignments
           /\ pc'[f] = IF remoteCalls'[f] < maxRetries THEN "backoff" ELSE "catch"]_vars

\* a response whose first element is valid and whose second has a blank
\* source has been refused
C30_Witness ==
  /\ Done("parseAndValidateResponse")
  /\ Len(call.arg) = 2
  /\ MandatoryFieldsOK(call.arg[1])
  /\ call.arg[2].t = "object"
  /\ call.arg[2].source = Str(<<SP, TAB>>)
  /\ ~ret.ok

(***************************************************************************)
(* The candidate JSON of a raw response                                    *)
(***************************************************************************)
\* the positions of the raw response where a well-formed array literal starts
ArrayLiteralStarts(content) ==
  {i \in 1..Len(content) : content[i].k = "[" /\ ParseValue(content, i).ok}

\* the first array literal of the raw response, the full response if none
FirstArrayLiteral(content) ==
  IF ArrayLiteralStarts(content) = {} THEN content
  ELSE LET i == CHOOSE k \in ArrayLiteralStarts(content) :
                  \A j \in ArrayLiteralStarts(content) : k <= j
       IN SubSeq(content, i, ParseValue(content, i).next - 1)

\* the validation of a candidate: the items of the array, or a failure
ValidationOf(candidate) ==
  LET parsed == JSONParse(candidate) IN
  IF ~parsed.ok \/ parsed.v.t # "array" THEN [ok |-> FALSE, v |-> Null]
  ELSE LET r == MapValidate(parsed.v.elems, 1, <<>>) IN
       [ok |-> r.ok, v |-> r.v]

\* C31: the validation is applied to the first array literal of the raw
\* response whatever text surrounds it, prose with brackets included, and
\* to the full response when it has no array literal; a parsed value that
\* is not an array is a validation failure.
C31_FirstArrayLiteralValidated ==
  Done("parseAndValidateResponse(content)") =>
    LET expected == ValidationOf(FirstArrayLiteral(call.arg)) IN
    /\ ret.ok = expected.ok
    /\ ret.v = expected.v

\* C32: the location of a returned item is null unless the location of the
\* element is a string with a character left after trimming; whatever the
\* location of its elements, a response whose elements have the mandatory
\* fields is accepted; the locations a run holds or has stored are null or
\* such strings.
C32_LocationNullUnlessNonBlank ==
  /\ (Done("parseAndValidateResponse")
        /\ \A i \in 1..Len(call.arg) : MandatoryFieldsOK(call.arg[i])) =>
       /\ ret.ok
       /\ Len(ret.v) = Len(call.arg)
       /\ \A i \in 1..Len(call.arg) :
            /\ ret.v[i].location # Null <=> NonBlankString(call.arg[i].location)
            /\ ret.v[i].location # Null => NonBlankString(ret.v[i].location)
  /\ \A f \in FileIds :
       /\ \A i \in 1..Len(scheduleData[f]) :
            scheduleData[f][i].location = Null
              \/ NonBlankString(scheduleData[f][i].location)
       /\ \A i \in 1..Len(assignments) :
            assignments[i].location = Null \/ NonBlankString(assignments[i].location)

\* a response whose elements have a location of blanks and a location that
\* is a number was accepted, both locations returned as null
C32_Witness ==
  /\ Done("parseAndValidateResponse")
  /\ Len(call.arg) = 2
  /\ call.arg[1].t = "object" /\ call.arg[1].location = Str(<<SP>>)
  /\ call.arg[2].t = "object" /\ call.arg[2].location = Num
  /\ ret.ok
  /\ ret.v[1].location = Null
  /\ ret.v[2].location = Null

\* the lists of validated items an attempt can return
AcceptedLists ==
  {AttemptOutcome(o).v : o \in {x \in RemoteOutcomes : AttemptOutcome(x).ok}}

\* C33: makeRequestWithRetry stops at the first attempt whose response passes
\* the validation: when attempt k succeeds the remote capability has been
\* called k times (k <= 3), the k - 1 earlier attempts have failed and been
\* followed by one wait each, no wait and no call follows attempt k, and the
\* list returned is the list of validated items of the response of attempt
\* k, which the run keeps unchanged.
C33_StopsAtFirstSuccess ==
  /\ [](\A f \in FileIds :
         Succeeded(f) =>
           /\ remoteCalls[f] = attempt[f]
           /\ remoteCalls[f] \in 1..maxRetries
           /\ Len(attemptErrors[f]) = attempt[f] - 1
           /\ Len(waited[f]) = attempt[f] - 1
           /\ scheduleData[f] \in AcceptedLists)
  /\ [][\A f \in FileIds :
         /\ Succeeded(f) =>
              /\ remoteCalls'[f] = remoteCalls[f]
              /\ waited'[f] = waited[f]
              /\ attempt'[f] = attempt[f]
              /\ attemptErrors'[f] = attemptErrors[f]
              /\ scheduleData'[f] = scheduleData[f]
         /\ (~Succeeded(f) /\ Succeeded(f)') =>
              /\ remoteCalls'[f] = remoteCalls[f] + 1
              /\ waited'[f] = waited[f]
              /\ scheduleData[f] = <<>>]_vars

\* the third attempt was the first to succeed: three calls, the waits of
\* 1000 and 2000 ms, and the file completed with the item of that response
C33_Witness ==
  /\ Succeeded(1)
  /\ pc[1] = "done"
  /\ status[1] = "completed"
  /\ remoteCalls[1] = 3
  /\ Len(attemptErrors[1]) = 2
  /\ waited[1] = <<1000, 2000>>
  /\ Len(scheduleData[1]) = 1
  /\ Len(assignments) = 1

\* C34: a run inserts assignments only after an attempt has returned the
\* validated list of a whole response: a file has no row while no attempt
\* of its run has succeeded, none when every attempt failed, and every row
\* inserted is the row of an element of that one list, which does not
\* change once returned.
C34_RowsOnlyFromValidatedList ==
  /\ [](\A f \in FileIds :
         /\ RowsOf(f) # {} => Succeeded(f) /\ scheduleData[f] \in AcceptedLists
         /\ Len(RowSeqOf(f)) <= Len(scheduleData[f])
         /\ \A i \in RowsOf(f) :
              \E k \in 1..Len(scheduleData[f]) :
                assignments[i] = AssignmentRow(f, scheduleData[f][k]))
  /\ [][assignments' # assignments =>
         \E f \in FileIds :
           /\ Succeeded(f)
           /\ scheduleData'[f] = scheduleData[f]
           /\ \E k \in 1..Len(scheduleData[f]) :
                assignments' = Append(assignments, AssignmentRow(f, scheduleData[f][k]))]_vars

\* the first response was refused for an element without description, the
\* second was accepted, and the one row of the file is the row of its item
C34_Witness ==
  /\ remoteCalls[1] = 2
  /\ attemptErrors[1] = <<<<"Invalid JSON response from OpenAI: ",
                            "assignment", " must be a non-empty string">>>>
  /\ Succeeded(1)
  /\ Len(scheduleData[1]) = 1
  /\ assignments = <<AssignmentRow(1, scheduleData[1][1])>>
  /\ status[1] = "completed"

\* C35: every row of the assignments table carries the id of a file that
\* has a record and the user id of that record, the user of the request
\* that uploaded the file; the row a run inserts carries the id of the file
\* of that run and no other.
C35_RowsCarryFileAndOwner ==
  /\ [](\A i \in 1..Len(assignments) :
         /\ assignments[i].file_id \in FileIds
         /\ status[assignments[i].file_id] # "none"
         /\ assignments[i].user_id = userId[assignments[i].file_id]
         /\ assignments[i].user_id = reqUser)
  /\ [][assignments' # assignments =>
         /\ Len(assignments') = Len(assignments) + 1
         /\ SubSeq(assignments', 1, Len(assignments)) = assignments
         /\ \E f \in FileIds :
              /\ pc[f] = "insert"
              /\ idx'[f] = idx[f] + 1
              /\ \A g \in FileIds \ {f} : idx'[g] = idx[g]
              /\ assignments'[Len(assignments')].file_id = f
              /\ assignments'[Len(assignments')].user_id = userId[f]]_vars

\* user 2 uploaded two files; the run of the second file inserted its row
\* before the run of the first, each row with the id of its own file
C35_Witness ==
  /\ reqUser = 2
  /\ Len(assignments) = 2
  /\ assignments[1].file_id = 2 /\ assignments[1].user_id = 2
  /\ assignments[2].file_id = 1 /\ assignments[2].user_id = 2

\* C36: while the run of a file waits between two attempts, the run of
\* every other file that has not ended can take its next step, and the steps
\* taken meanwhile leave the waiting run as it is: it leaves the wait only
\* by its own step, the end of the delay, which moves no other run.
C36_BackoffDoesNotBlock ==
  /\ [](\A f \in FileIds : \A g \in FileIds \ {f} :
         (pc[f] = "backoff" /\ pc[g] \notin {"idle", "done", "rejected"}) =>
           ENABLED UploadedRunStep(g))
  /\ [][\A f \in FileIds :
         pc[f] = "backoff" =>
           \/ RunLocal(f)' = RunLocal(f)
           \/ /\ pc'[f] = "request"
              /\ Len(waited'[f]) = Len(waited[f]) + 1
              /\ \A g \in FileIds \ {f} : RunLocal(g)' = RunLocal(g)]_vars

\* the run of file 1 is in its first wait, and the run of file 2, started
\* after it, has completed its file
C36_Witness ==
  /\ pc[1] = "backoff"
  /\ remoteCalls[1] = 1
  /\ waited[1] = <<>>
  /\ pc[2] = "done"
  /\ status[2] = "completed"
  /\ Len(RowSeqOf(2)) = 1

\* the files whose run has been started
StartedRuns == {f \in FileIds : pc[f] # "idle"}

\* C37: a run is started only by the step of the handler that creates the
\* record of its file, and once for that record: the files with a started
\* run are the files with a record, one for each element of uploadedFiles;
\* a failed INSERT starts no run and creates no record; a started run is
\* never started again; and the status of a file is written only by the
\* step creating its record and by steps of its own run, one run a step.
C37_OneRunPerRecord ==
  /\ [](/\ StartedRuns = {f \in FileIds : status[f] # "none"}
        /\ StartedRuns = {uploadedFiles[i].id : i \in 1..Len(uploadedFiles)}
        /\ Cardinality(StartedRuns) = Len(uploadedFiles)
        /\ Len(uploadedFiles) + Len(uploadErrors) <= Len(reqFiles))
  /\ [][/\ \A f \in FileIds :
            /\ (pc'[f] = "processFile" /\ pc[f] # "processFile") =>
                 /\ pc[f] = "idle"
                 /\ status[f] = "none" /\ status'[f] = "processing"
                 /\ hpc = "insert"
                 /\ uploadedFiles' = Append(uploadedFiles, UploadedFile(f, mimeType'[f]))
                 /\ uploadErrors' = uploadErrors
            /\ pc[f] # "idle" => pc'[f] \notin {"idle", "processFile"}
            /\ status'[f] # status[f] => RunLocal(f)' # RunLocal(f)
         /\ uploadErrors' # uploadErrors =>
              /\ pc' = pc
              /\ status' = status
              /\ uploadedFiles' = uploadedFiles
         /\ Cardinality({g \in FileIds : RunLocal(g)' # RunLocal(g)}) <= 1]_vars

\* of a request with two files the first INSERT failed and the second
\* succeeded: one record, one run, which has gone on to its remote call
C37_Witness ==
  /\ Len(reqFiles) = 2
  /\ hpc = "sent"
  /\ Len(uploadErrors) = 1
  /\ Len(uploadedFiles) = 1
  /\ StartedRuns = {1}
  /\ remoteCalls[1] = 1
  /\ status[2] = "none"

\* s is in normal form: no carriage return, no tab, no two spaces in a row,
\* no three line feeds in a row, no white space at either end
NormalForm(s) ==
  /\ \A i \in 1..Len(s) : s[i] \notin {CR, TAB}
  /\ \A i \in 1..(Len(s) - 1) : ~(s[i] = SP /\ s[i + 1] = SP)
  /\ \A i \in 1..(Len(s) - 2) : ~(s[i] = LF /\ s[i + 1] = LF /\ s[i + 2] = LF)
  /\ s # <<>> => s[1] \notin WhiteSpace /\ s[Len(s)] \notin WhiteSpace

\* C38: every text cleanText returns is in normal form: it has no carriage
\* return, no tab, no run of two or more spaces, no run of three or more
\* line feeds (so no two empty lines in a row) and no white space at its
\* ends; so are the text a run holds and the extracted text it persists.
C38_CleanTextNormalForm ==
  /\ Done("cleanText") => ret.ok /\ IsString(ret.v) /\ NormalForm(ret.v.s)
  /\ \A f \in FileIds :
       /\ text[f] # Null => IsString(text[f]) /\ NormalForm(text[f].s)
       /\ extractedText[f] # Null =>
            IsString(extractedText[f]) /\ NormalForm(extractedText[f].s)

\* cleanText has turned three carriage returns inside a text into two line
\* feeds
C38_Witness ==
  /\ Done("cleanText")
  /\ call.arg = Str(<<"a", CR, CR, CR, "a">>)
  /\ ret.v = Str(<<"a", LF, LF, "a">>)

\* C39: the list parseAndValidateResponse returns for an accepted response
\* has one item for each element of the array, in the order of the array,
\* the k-th item being what the validation of the k-th element alone
\* returns; and the rows of a file are, in the order of their insertion, the
\* rows of the first items of the list of its run.
C39_ElementForElementInOrder ==
  /\ (Done("parseAndValidateResponse") /\ ret.ok) =>
       /\ Len(ret.v) = Len(call.arg)
       /\ \A k \in 1..Len(call.arg) :
            LET alone == parseAndValidateResponse(ArrayText(<<call.arg[k]>>)) IN
            alone.ok /\ alone.v = <<ret.v[k]>>
  /\ \A f \in FileIds :
       /\ Len(RowSeqOf(f)) = IF pc[f] = "idle" THEN 0 ELSE idx[f] - 1
       /\ Len(RowSeqOf(f)) <= Len(scheduleData[f])
       /\ \A k \in 1..Len(RowSeqOf(f)) :
            RowSeqOf(f)[k] = AssignmentRow(f, scheduleData[f][k])

\* the two items of an accepted response have been inserted, the item of
\* the first element first
C39_Witness ==
  /\ pc[1] = "done"
  /\ status[1] = "completed"
  /\ Len(scheduleData[1]) = 2
  /\ scheduleData[1][1].assignment # scheduleData[1][2].assignment
  /\ assignments = <<AssignmentRow(1, scheduleData[1][1]),
                     AssignmentRow(1, scheduleData[1][2])>>

\* r is s without the white space at its two ends
IsTrimOf(r, s) ==
  /\ r # <<>> => r[1] \notin WhiteSpace /\ r[Len(r)] \notin WhiteSpace
  /\ \E i \in 1..(Len(s) + 1) : \E j \in 0..Len(s) :
       /\ r = SubSeq(s, i, j)
       /\ \A k \in 1..(i - 1) : s[k] \in WhiteSpace
       /\ \A k \in (j + 1)..Len(s) : s[k] \in WhiteSpace

\* C40: in every item returned, assignment, source and a location that is
\* not null are the strings of the element without the white space at their
\* ends; the validation of the returned list returns the same list, and so
\* does the validation of the list a run holds.
C40_FieldsTrimmedAndStable ==
  /\ (Done("parseAndValidateResponse") /\ ret.ok) =>
       /\ \A k \in 1..Len(ret.v) :
            /\ IsString(ret.v[k].assignment)
            /\ IsTrimOf(ret.v[k].assignment.s, call.arg[k].assignment.s)
            /\ IsString(ret.v[k].source)
            /\ IsTrimOf(ret.v[k].source.s, call.arg[k].source.s)
            /\ ret.v[k].location # Null =>
                 /\ IsString(ret.v[k].location)
                 /\ IsTrimOf(ret.v[k].location.s, call.arg[k].location.s)
       /\ parseAndValidateResponse(ArrayText(ret.v)) = Return(ret.v)
  /\ \A f \in FileIds :
       parseAndValidateResponse(ArrayText(scheduleData[f])) = Return(scheduleData[f])

\* a response with an assignment, a source and a location that have white
\* space at their ends was accepted and the three returned without it
C40_Witness ==
  /\ Done("parseAndValidateResponse")
  /\ ret.ok
  /\ Len(call.arg) = 2
  /\ call.arg[1].assignment = Str(<<SP, "a", SP, "b", LF>>)
  /\ call.arg[1].source = Str(<<SP, "a", SP, "b", LF>>)
  /\ call.arg[2].location = Str(<<SP, "r">>)
  /\ ret.v[1].assignment = Str(<<"a", SP, "b">>)
  /\ ret.v[1].source = Str(<<"a", SP, "b">>)
  /\ ret.v[2].location = Str(<<"r">>)

====
